---- MODULE Spec2Model ----
(***************************************************************************)
(* Verification model of the orchestration core of AIFinanceAssistant:     *)
(* guardrails (src/core/guardrails.py), intent detection and routing       *)
(* (src/orchestration/intent_detector.py, state.py), the agent executor    *)
(* (agent_executor.py) and the two workflow controllers (workflow.py,      *)
(* langgraph_workflow.py).                                                 *)
(*                                                                         *)
(* Text is modelled as a sequence of one-character strings, so that the    *)
(* validators, the PII patterns, str.lower()/str.strip() and the keyword   *)
(* search are computed the way the Python code computes them.              *)
(***************************************************************************)
EXTENDS Integers, Sequences, FiniteSets, TLC

\* ------------------------------------------------------------------------
\* Text primitives (Python str operations used by the code)
\* ------------------------------------------------------------------------

LowerLetters ==
    <<"a","b","c","d","e","f","g","h","i","j","k","l","m",
      "n","o","p","q","r","s","t","u","v","w","x","y","z">>

UpperLetters ==
    <<"A","B","C","D","E","F","G","H","I","J","K","L","M",
      "N","O","P","Q","R","S","T","U","V","W","X","Y","Z">>

LowerSet == {LowerLetters[i] : i \in 1..26}

UpperSet == {UpperLetters[i] : i \in 1..26}

Digits == {"0","1","2","3","4","5","6","7","8","9"}

\* the characters matched by \s that a query can hold
Whitespace == {" ", "\t", "\n", "\r", "\f"}

IsDigit(c) == c \in Digits

IsAlpha(c) == c \in LowerSet \/ c \in UpperSet

\* str.isalnum() of one character
IsAlnum(c) == IsAlpha(c) \/ IsDigit(c)

\* \w of the re module
IsWordChar(c) == IsAlnum(c) \/ c = "_"

ToLowerMap == [c \in UpperSet |-> LowerLetters[CHOOSE i \in 1..26 : UpperLetters[i] = c]]

ToUpperMap == [c \in LowerSet |-> UpperLetters[CHOOSE i \in 1..26 : LowerLetters[i] = c]]

\* str.lower(); SubSeq turns the mapped function into a tuple again
Lower(s) ==
    SubSeq([i \in 1..Len(s) |-> IF s[i] \in UpperSet THEN ToLowerMap[s[i]] ELSE s[i]],
           1, Len(s))

\* str.upper()
Upper(s) ==
    SubSeq([i \in 1..Len(s) |-> IF s[i] \in LowerSet THEN ToUpperMap[s[i]] ELSE s[i]],
           1, Len(s))

\* str.strip(): drop leading and trailing whitespace
Strip(s) ==
    IF \A i \in 1..Len(s) : s[i] \in Whitespace
    THEN << >>
    ELSE LET first == CHOOSE i \in 1..Len(s) :
                          /\ s[i] \notin Whitespace
                          /\ \A j \in 1..(i-1) : s[j] \in Whitespace
             last == CHOOSE i \in 1..Len(s) :
                          /\ s[i] \notin Whitespace
                          /\ \A j \in (i+1)..Len(s) : s[j] \in Whitespace
         IN SubSeq(s, first, last)

\* k occurs in s starting at index i
HasAt(s, k, i) ==
    /\ i >= 1
    /\ i + Len(k) - 1 <= Len(s)
    /\ \A j \in 1..Len(k) : s[i + j - 1] = k[j]

\* Python's `k in s` for strings
Contains(s, k) == \E i \in 1..(Len(s) - Len(k) + 1) : HasAt(s, k, i)

\* sep.join(parts)
RECURSIVE Join(_, _)
Join(parts, sep) ==
    IF Len(parts) = 0 THEN << >>
    ELSE IF Len(parts) = 1 THEN parts[1]
    ELSE parts[1] \o sep \o Join(Tail(parts), sep)

\* ------------------------------------------------------------------------
\* src/core/guardrails.py
\* ------------------------------------------------------------------------

\* GuardrailsConfig
MAX_QUERY_LENGTH == 5000

MIN_QUERY_LENGTH == 3

AGENT_TIMEOUT_MS == 30000

TOTAL_WORKFLOW_TIMEOUT_MS == 60000

QUERIES_PER_MINUTE == 10

QUERIES_PER_HOUR == 100

QUERIES_PER_DAY == 500

\* InputValidator.validate_query: the SQL-like substrings searched in user_input.upper()
dangerous_patterns ==
    << <<"D","R","O","P">>,
       <<"D","E","L","E","T","E">>,
       <<"I","N","S","E","R","T">>,
       <<"U","P","D","A","T","E">>,
       <<"-","-">>,
       <<"/","*">> >>

\* PIIDetector.get_warning: the readable name of each detected type (type_names.get(t, t))
type_names ==
    [ ssn |-> <<"S","o","c","i","a","l"," ","S","e","c","u","r","i","t","y"," ","N","u","m","b","e","r">>,
      email |-> <<"e","m","a","i","l"," ","a","d","d","r","e","s","s">>,
      phone |-> <<"p","h","o","n","e"," ","n","u","m","b","e","r">>,
      credit_card |-> <<"c","r","e","d","i","t"," ","c","a","r","d"," ","n","u","m","b","e","r">>,
      bank_account |-> <<"b","a","n","k"," ","a","c","c","o","u","n","t"," ","n","u","m","b","e","r">>,
      ssn_alt |-> <<"s","s","n","_","a","l","t">> ]

WARNING_HEAD ==
    <<"P","l","e","a","s","e"," ","d","o","n","'","t"," ","i","n","c","l","u","d","e"," ","s","e","n","s","i",
      "t","i","v","e"," ","i","n","f","o","r","m","a","t","i","o","n"," ","l","i","k","e"," ">>

WARNING_TAIL ==
    <<"."," ","T","h","i","s"," ","i","n","f","o","r","m","a","t","i","o","n"," ","i","s"," ","n","o","t"," ",
      "n","e","e","d","e","d"," ","f","o","r"," ","f","i","n","a","n","c","i","a","l"," ","a","n","a","l","y",
      "s","i","s",".">>

COMMA_SPACE ==
    <<","," ">>

DISCLAIMER_tax ==
    <<"U+26A0","U+FE0F"," ","*","*","T","A","X"," ","D","I","S","C","L","A","I","M","E","R","*","*",":"," ",
      "T","h","i","s"," ","i","s"," ","e","d","u","c","a","t","i","o","n","a","l"," ","i","n","f","o","r","m",
      "a","t","i","o","n"," ","o","n","l","y",","," ","n","o","t"," ","t","a","x"," ","a","d","v","i","c","e",
      "."," ","C","o","n","s","u","l","t"," ","a"," ","q","u","a","l","i","f","i","e","d"," ","t","a","x"," ",
      "p","r","o","f","e","s","s","i","o","n","a","l"," ","f","o","r"," ","y","o","u","r"," ","s","p","e","c",
      "i","f","i","c"," ","s","i","t","u","a","t","i","o","n",".">>

DISCLAIMER_investment ==
    <<"U+26A0","U+FE0F"," ","*","*","I","N","V","E","S","T","M","E","N","T"," ","D","I","S","C","L","A","I",
      "M","E","R","*","*",":"," ","T","h","i","s"," ","a","n","a","l","y","s","i","s"," ","i","s"," ","f","o",
      "r"," ","i","n","f","o","r","m","a","t","i","o","n","a","l"," ","p","u","r","p","o","s","e","s"," ","o",
      "n","l","y","."," ","P","a","s","t"," ","p","e","r","f","o","r","m","a","n","c","e"," ","d","o","e","s",
      "n","'","t"," ","g","u","a","r","a","n","t","e","e"," ","f","u","t","u","r","e"," ","r","e","s","u","l",
      "t","s","."," ","C","o","n","s","i","d","e","r"," ","y","o","u","r"," ","r","i","s","k"," ","t","o","l",
      "e","r","a","n","c","e"," ","a","n","d"," ","f","i","n","a","n","c","i","a","l"," ","g","o","a","l","s",
      " ","b","e","f","o","r","e"," ","m","a","k","i","n","g"," ","d","e","c","i","s","i","o","n","s",".">>

DISCLAIMER_goal_planning ==
    <<"U+26A0","U+FE0F"," ","*","*","P","L","A","N","N","I","N","G"," ","D","I","S","C","L","A","I","M","E",
      "R","*","*",":"," ","T","h","e","s","e"," ","p","r","o","j","e","c","t","i","o","n","s"," ","a","r","e",
      " ","e","s","t","i","m","a","t","e","s"," ","b","a","s","e","d"," ","o","n"," ","a","s","s","u","m","p",
      "t","i","o","n","s","."," ","A","c","t","u","a","l"," ","r","e","s","u","l","t","s"," ","m","a","y"," ",
      "v","a","r","y"," ","s","i","g","n","i","f","i","c","a","n","t","l","y"," ","b","a","s","e","d"," ","o",
      "n"," ","m","a","r","k","e","t"," ","c","o","n","d","i","t","i","o","n","s"," ","a","n","d"," ","c","h",
      "a","n","g","e","s",".">>

DISCLAIMER_general ==
    <<"U+26A0","U+FE0F"," ","*","*","G","E","N","E","R","A","L"," ","D","I","S","C","L","A","I","M","E","R",
      "*","*",":"," ","N","o","t"," ","f","i","n","a","n","c","i","a","l"," ","a","d","v","i","c","e","."," ",
      "C","o","n","s","u","l","t"," ","a"," ","q","u","a","l","i","f","i","e","d"," ","f","i","n","a","n","c",
      "i","a","l"," ","a","d","v","i","s","o","r"," ","b","e","f","o","r","e"," ","m","a","k","i","n","g"," ",
      "i","n","v","e","s","t","m","e","n","t"," ","d","e","c","i","s","i","o","n","s",".">>

VALIDATION_REJECTED ==
    <<"Y","o","u","r"," ","q","u","e","s","t","i","o","n"," ","d","o","e","s","n","'","t"," ","m","e","e","t",
      " ","o","u","r"," ","s","a","f","e","t","y"," ","r","e","q","u","i","r","e","m","e","n","t","s","."," ",
      "P","l","e","a","s","e"," ","t","r","y"," ","a","g","a","i","n",".">>

REDACTION_NOTICE ==
    <<"G","e","n","e","r","a","t","e","d"," ","r","e","s","p","o","n","s","e"," ","c","o","n","t","a","i","n",
      "e","d"," ","s","e","n","s","i","t","i","v","e"," ","d","a","t","a"," ","a","n","d"," ","w","a","s"," ",
      "r","e","d","a","c","t","e","d"," ","f","o","r"," ","p","r","i","v","a","c","y",".">>

SYNTHESIS_ERROR_HEAD ==
    <<"E","r","r","o","r"," ","g","e","n","e","r","a","t","i","n","g"," ","r","e","s","p","o","n","s","e",":",
      " ">>

ERROR_HANDLER_FALLBACK ==
    <<"I"," ","e","n","c","o","u","n","t","e","r","e","d"," ","a","n"," ","e","r","r","o","r"," ","p","r","o",
      "c","e","s","s","i","n","g"," ","y","o","u","r"," ","r","e","q","u","e","s","t","."," ","P","l","e","a",
      "s","e"," ","t","r","y"," ","a","g","a","i","n"," ","o","r"," ","r","e","p","h","r","a","s","e"," ","y",
      "o","u","r"," ","q","u","e","s","t","i","o","n",".">>

\* the characters the query allow-list ^[a-zA-Z0-9\s\-\$\%\(\)\,\.\?\!]+$ accepts
AllowedPunctuation == {"-", "$", "%", "(", ")", ",", ".", "?", "!"}

IsAllowedChar(c) == IsAlnum(c) \/ c \in Whitespace \/ c \in AllowedPunctuation

\* special_count of validate_query: characters that are neither alphanumeric nor ' '
special_count(user_input) ==
    Cardinality({i \in 1..Len(user_input) : ~IsAlnum(user_input[i]) /\ user_input[i] # " "})

\* validate_query looking for suspicious patterns before it checks the characters
validate_query_patterns_first(user_input) ==
    IF Len(user_input) > MAX_QUERY_LENGTH
    THEN [is_valid |-> FALSE, error |-> "too_long"]
    ELSE IF Len(user_input) < MIN_QUERY_LENGTH
    THEN [is_valid |-> FALSE, error |-> "too_short"]
    ELSE IF \E p \in 1..Len(dangerous_patterns) :
                Contains(Upper(user_input), dangerous_patterns[p])
    THEN [is_valid |-> FALSE, error |-> "suspicious_patterns"]
    ELSE IF ~(\A i \in 1..Len(user_input) : IsAllowedChar(user_input[i]))
    THEN [is_valid |-> FALSE, error |-> "invalid_characters"]
    ELSE IF 10 * special_count(user_input) > 3 * Len(user_input)
    THEN [is_valid |-> FALSE, error |-> "too_many_special"]
    ELSE [is_valid |-> TRUE, error |-> "none"]

\* InputValidator.validate_query: (is_valid, error), the error named by its rule;
\* special_count / len > 0.3 is compared in integers (10 * count > 3 * len)
validate_query(user_input) ==
    IF Len(user_input) > MAX_QUERY_LENGTH
    THEN [is_valid |-> FALSE, error |-> "too_long"]
    ELSE IF Len(user_input) < MIN_QUERY_LENGTH
    THEN [is_valid |-> FALSE, error |-> "too_short"]
    ELSE IF ~(\A i \in 1..Len(user_input) : IsAllowedChar(user_input[i]))
    THEN [is_valid |-> FALSE, error |-> "invalid_characters"]
    ELSE IF \E p \in 1..Len(dangerous_patterns) :
                Contains(Upper(user_input), dangerous_patterns[p])
    THEN [is_valid |-> FALSE, error |-> "suspicious_patterns"]
    ELSE IF 10 * special_count(user_input) > 3 * Len(user_input)
    THEN [is_valid |-> FALSE, error |-> "too_many_special"]
    ELSE [is_valid |-> TRUE, error |-> "none"]

\* n digits of text starting at index i
DigitsAt(text, i, n) ==
    /\ i >= 1
    /\ i + n - 1 <= Len(text)
    /\ \A j \in 0..(n-1) : IsDigit(text[i + j])

WordAt(text, i) == i >= 1 /\ i <= Len(text) /\ IsWordChar(text[i])

\* \b between index i-1 and index i
Boundary(text, i) == WordAt(text, i - 1) # WordAt(text, i)

\* an optional separator of class sep at index i: present (1) or absent (0)
OptSep(text, i, present, sep) ==
    present = 1 => (i >= 1 /\ i <= Len(text) /\ text[i] \in sep)

\* PII_PATTERNS["ssn"]: \d{3}-\d{2}-\d{4}
MatchSSN(text) ==
    \E i \in 1..(Len(text) - 10) :
        /\ DigitsAt(text, i, 3)
        /\ text[i + 3] = "-"
        /\ DigitsAt(text, i + 4, 2)
        /\ text[i + 6] = "-"
        /\ DigitsAt(text, i + 7, 4)

\* PII_PATTERNS["email"]: [a-zA-Z0-9._%+-]+@[a-zA-Z0-9.-]+\.[a-zA-Z]{2,}
MatchEmail(text) ==
    \E at \in 2..Len(text) : \E dot \in (at + 2)..(Len(text) - 2) :
        /\ text[at] = "@"
        /\ IsAlnum(text[at - 1]) \/ text[at - 1] \in {".", "_", "%", "+", "-"}
        /\ \A j \in (at + 1)..(dot - 1) : IsAlnum(text[j]) \/ text[j] \in {".", "-"}
        /\ text[dot] = "."
        /\ IsAlpha(text[dot + 1])
        /\ IsAlpha(text[dot + 2])

\* PII_PATTERNS["phone"]: \b\d{3}[-.]?\d{3}[-.]?\d{4}\b
MatchPhone(text) ==
    \E i \in 1..Len(text) : \E a \in {0, 1} : \E b \in {0, 1} :
        /\ Boundary(text, i)
        /\ DigitsAt(text, i, 3)
        /\ OptSep(text, i + 3, a, {"-", "."})
        /\ DigitsAt(text, i + 3 + a, 3)
        /\ OptSep(text, i + 6 + a, b, {"-", "."})
        /\ DigitsAt(text, i + 6 + a + b, 4)
        /\ Boundary(text, i + 10 + a + b)

\* PII_PATTERNS["credit_card"]: \b\d{4}[\s-]?\d{4}[\s-]?\d{4}[\s-]?\d{4}\b
MatchCreditCard(text) ==
    \E i \in 1..Len(text) : \E a \in {0, 1} : \E b \in {0, 1} : \E c \in {0, 1} :
        /\ Boundary(text, i)
        /\ DigitsAt(text, i, 4)
        /\ OptSep(text, i + 4, a, Whitespace \cup {"-"})
        /\ DigitsAt(text, i + 4 + a, 4)
        /\ OptSep(text, i + 8 + a, b, Whitespace \cup {"-"})
        /\ DigitsAt(text, i + 8 + a + b, 4)
        /\ OptSep(text, i + 12 + a + b, c, Whitespace \cup {"-"})
        /\ DigitsAt(text, i + 12 + a + b + c, 4)
        /\ Boundary(text, i + 16 + a + b + c)

\* \b\d{lo,hi}\b
MatchDigitRun(text, lo, hi) ==
    \E i \in 1..Len(text) : \E n \in lo..hi :
        /\ Boundary(text, i)
        /\ DigitsAt(text, i, n)
        /\ Boundary(text, i + n)

\* PIIDetector.PII_PATTERNS in dict order, each with its matcher
PII_TYPES == <<"ssn", "email", "phone", "credit_card", "bank_account", "ssn_alt">>

PIIMatches(pii_type, text) ==
    CASE pii_type = "ssn" -> MatchSSN(text)
      [] pii_type = "email" -> MatchEmail(text)
      [] pii_type = "phone" -> MatchPhone(text)
      [] pii_type = "credit_card" -> MatchCreditCard(text)
      [] pii_type = "bank_account" -> MatchDigitRun(text, 10, 12)
      [] pii_type = "ssn_alt" -> MatchDigitRun(text, 9, 9)

\* PIIDetector.detect: detected_types, in pattern order (has_pii is detected_types # <<>>)
detect(text) ==
    SelectSeq(PII_TYPES, LAMBDA t : PIIMatches(t, text))

\* PIIDetector.get_warning
get_warning(detected_types) ==
    WARNING_HEAD
      \o Join([i \in 1..Len(detected_types) |-> type_names[detected_types[i]]], COMMA_SPACE)
      \o WARNING_TAIL

\* DisclaimerManager.get_disclaimer
get_disclaimer(disclaimer_type) ==
    CASE disclaimer_type = "tax" -> DISCLAIMER_tax
      [] disclaimer_type = "investment" -> DISCLAIMER_investment
      [] disclaimer_type = "goal_planning" -> DISCLAIMER_goal_planning
      [] OTHER -> DISCLAIMER_general

InList(x, list) == \E i \in 1..Len(list) : list[i] = x

\* DisclaimerManager.add_disclaimers; `"tax_question" in str(intent_types)` is a substring
\* search in the list's repr, true exactly when an element holds "tax_question"
add_disclaimers(response, intent_types) ==
    IF InList("tax", intent_types) \/ InList("tax_question", intent_types)
    THEN response \o <<"\n", "\n">> \o get_disclaimer("tax")
    ELSE IF InList("investment", intent_types) \/ InList("goal_planning", intent_types)
    THEN response \o <<"\n", "\n">> \o get_disclaimer("goal_planning")
    ELSE response \o <<"\n", "\n">> \o get_disclaimer("general")

\* ------------------------------------------------------------------------
\* src/orchestration/state.py, src/orchestration/intent_detector.py
\* ------------------------------------------------------------------------

\* AgentType: the values of the enumeration
AgentType ==
    {"finance_qa", "portfolio_analysis", "market_analysis",
     "goal_planning", "tax_education", "news_synthesizer"}

\* Intent: the values of the enumeration
Intent ==
    {"education_question", "tax_question", "portfolio_analysis", "market_analysis",
     "news_analysis", "goal_planning", "investment_plan", "unknown"}

\* INTENT_KEYWORDS: the keyword phrases of each intent, in table order
INTENT_KEYWORDS ==
    [ education_question |->
        << <<"w","h","a","t"," ","i","s">>,
           <<"h","o","w"," ","d","o","e","s">>,
           <<"e","x","p","l","a","i","n">>,
           <<"d","e","f","i","n","e">>,
           <<"u","n","d","e","r","s","t","a","n","d">>,
           <<"t","e","l","l"," ","m","e"," ","a","b","o","u","t">>,
           <<"d","e","s","c","r","i","b","e">>,
           <<"d","i","f","f","e","r","e","n","c","e"," ","b","e","t","w","e","e","n">>,
           <<"c","o","n","c","e","p","t">>,
           <<"m","e","a","n","i","n","g"," ","o","f">>,
           <<"w","h","y"," ","i","s">> >>,
      tax_question |->
        << <<"t","a","x">>,
           <<"c","a","p","i","t","a","l"," ","g","a","i","n","s">>,
           <<"i","r","a">>,
           <<"4","0","1","k">>,
           <<"r","o","t","h">>,
           <<"d","e","d","u","c","t","i","b","l","e">>,
           <<"h","a","r","v","e","s","t","i","n","g">>,
           <<"d","i","v","i","d","e","n","d"," ","t","a","x">>,
           <<"t","a","x"," ","s","t","r","a","t","e","g","y">>,
           <<"t","a","x"," ","l","o","s","s">>,
           <<"t","a","x"," ","e","f","f","i","c","i","e","n","t">> >>,
      portfolio_analysis |->
        << <<"a","n","a","l","y","z","e"," ","p","o","r","t","f","o","l","i","o">>,
           <<"p","o","r","t","f","o","l","i","o"," ","a","l","l","o","c","a","t","i","o","n">>,
           <<"d","i","v","e","r","s","i","f","i","c","a","t","i","o","n">>,
           <<"m","y"," ","h","o","l","d","i","n","g","s">>,
           <<"m","y"," ","p","o","r","t","f","o","l","i","o">>,
           <<"c","o","n","c","e","n","t","r","a","t","i","o","n">>,
           <<"r","e","b","a","l","a","n","c","e">>,
           <<"p","o","s","i","t","i","o","n">>,
           <<"a","l","l","o","c","a","t","i","o","n"," ","p","e","r","c","e","n","t","a","g","e">>,
           <<"a","n","a","l","y","z","e">>,
           <<"m","y"," ","s","t","o","c","k","s">>,
           <<"m","y"," ","s","h","a","r","e","s">> >>,
      market_analysis |->
        << <<"p","r","i","c","e"," ","o","f">>,
           <<"q","u","o","t","e">>,
           <<"s","t","o","c","k"," ","p","r","i","c","e">>,
           <<"m","a","r","k","e","t"," ","d","a","t","a">>,
           <<"h","i","s","t","o","r","i","c","a","l">>,
           <<"t","r","e","n","d">>,
           <<"f","u","n","d","a","m","e","n","t","a","l","s">>,
           <<"c","o","m","p","a","r","e">>,
           <<"c","u","r","r","e","n","t"," ","p","r","i","c","e">>,
           <<"t","r","a","d","i","n","g"," ","a","t">>,
           <<"w","h","a","t"," ","i","s"," ","t","h","e"," ","p","r","i","c","e">>,
           <<"m","a","r","k","e","t"," ","a","n","a","l","y","s","i","s">>,
           <<"s","t","o","c","k"," ","a","n","a","l","y","s","i","s">>,
           <<"t","i","c","k","e","r">>,
           <<"s","y","m","b","o","l">> >>,
      news_analysis |->
        << <<"n","e","w","s">>,
           <<"s","e","n","t","i","m","e","n","t">>,
           <<"h","e","a","d","l","i","n","e","s">>,
           <<"m","a","r","k","e","t"," ","c","o","n","d","i","t","i","o","n">>,
           <<"w","h","a","t","'","s"," ","h","a","p","p","e","n","i","n","g">>,
           <<"l","a","t","e","s","t">>,
           <<"r","e","c","e","n","t">>,
           <<"m","a","r","k","e","t"," ","m","o","v","e","m","e","n","t">>,
           <<"e","v","e","n","t","s"," ","a","f","f","e","c","t","i","n","g">>,
           <<"m","a","r","k","e","t"," ","o","u","t","l","o","o","k">> >>,
      goal_planning |->
        << <<"g","o","a","l">>,
           <<"r","e","a","c","h">>,
           <<"s","a","v","e">>,
           <<"m","o","n","t","h","l","y"," ","c","o","n","t","r","i","b","u","t","i","o","n">>,
           <<"t","i","m","e","l","i","n","e">>,
           <<"p","r","o","j","e","c","t","i","o","n">>,
           <<"w","h","e","n"," ","w","i","l","l"," ","i">>,
           <<"h","o","w"," ","m","u","c","h"," ","d","o"," ","i"," ","n","e","e","d">>,
           <<"y","e","a","r","s"," ","t","o"," ","g","o","a","l">>,
           <<"f","i","n","a","n","c","i","a","l"," ","p","l","a","n">>,
           <<"a","c","h","i","e","v","e">>,
           <<"t","a","r","g","e","t">>,
           <<"p","a","t","h"," ","t","o">>,
           <<"y","e","a","r","s"," ","u","n","t","i","l">> >>,
      investment_plan |->
        << <<"p","l","a","n">>,
           <<"s","t","r","a","t","e","g","y">>,
           <<"c","o","m","p","r","e","h","e","n","s","i","v","e">>,
           <<"f","u","l","l"," ","a","n","a","l","y","s","i","s">>,
           <<"c","o","m","p","l","e","t","e"," ","p","i","c","t","u","r","e">>,
           <<"w","h","a","t"," ","s","h","o","u","l","d"," ","i"," ","d","o">>,
           <<"r","e","c","o","m","m","e","n","d","a","t","i","o","n">>,
           <<"o","v","e","r","a","l","l"," ","s","t","r","a","t","e","g","y">>,
           <<"i","n","v","e","s","t","m","e","n","t"," ","a","p","p","r","o","a","c","h">> >> ]

\* the keys of INTENT_KEYWORDS in dict (insertion) order
INTENT_ORDER ==
    <<"education_question", "tax_question", "portfolio_analysis", "market_analysis",
      "news_analysis", "goal_planning", "investment_plan">>

\* INTENT_TO_AGENTS: each intent's agents in priority order
INTENT_TO_AGENTS ==
    [ education_question |-> <<"finance_qa">>,
      tax_question |-> <<"tax_education">>,
      portfolio_analysis |-> <<"portfolio_analysis">>,
      market_analysis |-> <<"market_analysis">>,
      news_analysis |-> <<"news_synthesizer">>,
      goal_planning |-> <<"goal_planning">>,
      investment_plan |-> <<"portfolio_analysis", "goal_planning", "tax_education">>,
      unknown |-> <<"finance_qa">> ]

\* sum(1 for keyword in keywords if keyword in input_lower)
keyword_matches(intent, input_lower) ==
    Cardinality({k \in 1..Len(INTENT_KEYWORDS[intent]) :
                    Contains(input_lower, INTENT_KEYWORDS[intent][k])})

\* the sort without its stability: x goes ahead of the entries that score the same
InsertByScore_unstable(sorted, x, score) ==
    LET ahead == Cardinality({i \in 1..Len(sorted) : score[sorted[i]] > score[x]})
    IN SubSeq(sorted, 1, ahead) \o <<x>> \o SubSeq(sorted, ahead + 1, Len(sorted))

\* one step of sorted(..., key=score, reverse=True): x goes after every entry whose
\* score is at least its own (the sort is stable)
InsertByScore(sorted, x, score) ==
    LET ahead == Cardinality({i \in 1..Len(sorted) : score[sorted[i]] >= score[x]})
    IN SubSeq(sorted, 1, ahead) \o <<x>> \o SubSeq(sorted, ahead + 1, Len(sorted))

RECURSIVE SortByScore(_, _)
SortByScore(items, score) ==
    IF Len(items) = 0 THEN << >>
    ELSE InsertByScore(SortByScore(SubSeq(items, 1, Len(items) - 1), score),
                       items[Len(items)], score)

\* IntentDetector.detect_intents
detect_intents(user_input) ==
    LET input_lower == Lower(user_input)
        intent_scores == [i \in {INTENT_ORDER[k] : k \in 1..Len(INTENT_ORDER)} |->
                             keyword_matches(i, input_lower)]
        scored == SelectSeq(INTENT_ORDER, LAMBDA i : intent_scores[i] > 0)
        detected_intents == SortByScore(scored, intent_scores)
    IN IF Len(detected_intents) = 0 THEN <<"unknown">> ELSE detected_intents

\* IntentDetector.get_primary_intent
get_primary_intent(intents) ==
    IF Len(intents) > 0 /\ intents[1] # "unknown" THEN intents[1] ELSE "unknown"

\* the inner loop without its `not in agents_to_call` test
AppendNew_keeps_duplicates(agents_to_call, agents) ==
    agents_to_call \o agents

\* the inner loop of make_routing_decision: append the agents not yet present
RECURSIVE AppendNew(_, _)
AppendNew(agents_to_call, agents) ==
    IF Len(agents) = 0 THEN agents_to_call
    ELSE AppendNew(IF InList(agents[1], agents_to_call)
                   THEN agents_to_call
                   ELSE Append(agents_to_call, agents[1]),
                   Tail(agents))

RECURSIVE CollectAgents(_, _)
CollectAgents(agents_to_call, intents) ==
    IF Len(intents) = 0 THEN agents_to_call
    ELSE CollectAgents(IF intents[1] \in DOMAIN INTENT_TO_AGENTS
                       THEN AppendNew(agents_to_call, INTENT_TO_AGENTS[intents[1]])
                       ELSE agents_to_call,
                       Tail(intents))

\* make_routing_decision without its default fallback
make_routing_decision_no_default(detected_intents) ==
    CollectAgents(<< >>, detected_intents)

\* IntentDetector.make_routing_decision: decision.agents
make_routing_decision(detected_intents) ==
    LET agents_to_call == CollectAgents(<< >>, detected_intents)
    IN IF Len(agents_to_call) = 0 THEN <<"finance_qa">> ELSE agents_to_call

\* ------------------------------------------------------------------------
\* src/orchestration/intent_detector.py: the extractors and the confidence score
\* ------------------------------------------------------------------------

\* the index after the longest run of characters of `chars` that starts at i
RunEnd(s, i, chars) ==
    CHOOSE j \in i..(Len(s) + 1) :
        /\ \A k \in i..(j - 1) : s[k] \in chars
        /\ j = Len(s) + 1 \/ s[j] \notin chars

\* re.findall / re.search scanning left to right: ends[i] is the index after the
\* match that starts at i, or 0; the matches found do not overlap
RECURSIVE Scan(_, _)
Scan(ends, i) ==
    IF i > Len(ends) THEN << >>
    ELSE IF ends[i] = 0 THEN Scan(ends, i + 1)
    ELSE <<[start |-> i, stop |-> ends[i]]>> \o Scan(ends, ends[i])

\* [\s:] and ['"]
SeparatorChars == Whitespace \cup {":"}

QuoteChars == {"'", "\""}

\* extract_tickers: excluded_words
excluded_words ==
    { <<"T","H","E">>,
      <<"A","N","D">>,
      <<"F","O","R">>,
      <<"W","I","T","H">>,
      <<"F","R","O","M">>,
      <<"T","H","A","T">>,
      <<"T","H","I","S">>,
      <<"W","H","A","T">>,
      <<"W","H","E","N">>,
      <<"W","H","E","R","E">>,
      <<"H","O","W">>,
      <<"W","H","Y">>,
      <<"I","S">>,
      <<"I","T">>,
      <<"M","Y">>,
      <<"Y","O","U","R">>,
      <<"P","O","R","T","F","O","L","I","O">>,
      <<"S","T","O","C","K">>,
      <<"P","R","I","C","E">>,
      <<"S","H","A","R","E">>,
      <<"D","I","V","I","D","E","N","D">>,
      <<"A","N","N","U","A","L">>,
      <<"A","L","S","O">>,
      <<"S","O","M","E">>,
      <<"E","A","C","H">>,
      <<"M","A","N","Y">>,
      <<"M","O","R","E">>,
      <<"H","A","V","E">>,
      <<"W","I","L","L">>,
      <<"C","A","N">>,
      <<"A","B","O","U","T">>,
      <<"B","E","E","N">>,
      <<"T","H","A","N">>,
      <<"J","U","S","T">>,
      <<"I","N","T","O">>,
      <<"O","V","E","R">>,
      <<"O","N","L","Y">>,
      <<"W","H","I","C","H">>,
      <<"W","O","U","L","D">>,
      <<"C","O","U","L","D">>,
      <<"S","H","O","U","L","D">>,
      <<"I">>,
      <<"A">>,
      <<"I","N">>,
      <<"O","N">>,
      <<"A","T">>,
      <<"B","Y">>,
      <<"T","O">>,
      <<"O","F">>,
      <<"O","R">>,
      <<"U","P">> }

\* extract_tickers pattern1, \b([A-Z]{2,5})\b, at i: a whole word of two to five
\* capital letters
TickerWordEnd(s, i) ==
    LET e == RunEnd(s, i, UpperSet)
    IN IF /\ s[i] \in UpperSet
          /\ (i = 1 \/ ~IsWordChar(s[i - 1]))
          /\ e - i >= 2 /\ e - i <= 5
          /\ (e > Len(s) \/ ~IsWordChar(s[e]))
       THEN e ELSE 0

\* extract_tickers pattern2, ['"]([A-Z]{2,5})['"], at i
TickerQuotedEnd(s, i) ==
    LET e == RunEnd(s, i + 1, UpperSet)
    IN IF /\ s[i] \in QuoteChars
          /\ e - (i + 1) >= 2 /\ e - (i + 1) <= 5
          /\ e <= Len(s) /\ s[e] \in QuoteChars
       THEN e + 1 ELSE 0

\* a pattern that starts with one of several words, case ignored: the index after
\* the word at i, or 0
WordEnd(s, i, words) ==
    IF \E w \in words : HasAt(Lower(s), w, i)
    THEN i + Len(CHOOSE w \in words : HasAt(Lower(s), w, i))
    ELSE 0

TickerPrefixes ==
    { <<"t","i","c","k","e","r">>,
      <<"s","y","m","b","o","l">>,
      <<"h","o","l","d","i","n","g">> }

\* extract_tickers pattern3, (?:ticker|symbol|holding)[\s:]*([A-Z]{2,5}) with
\* re.IGNORECASE, at i: where the group starts and the index after it (0 for no match)
TickerAfterPrefix(s, i) ==
    LET a == WordEnd(s, i, TickerPrefixes)
        b == IF a = 0 THEN 0 ELSE RunEnd(s, a, SeparatorChars)
        c == IF a = 0 THEN 0 ELSE RunEnd(s, b, LowerSet \cup UpperSet)
    IN IF a # 0 /\ c - b >= 2
       THEN [group |-> b, stop |-> IF c - b > 5 THEN b + 5 ELSE c]
       ELSE [group |-> 0, stop |-> 0]

\* IntentDetector.extract_tickers: list(set(tickers)), kept as the set
extract_tickers(user_input) ==
    LET n == Len(user_input)
        found1 == Scan([i \in 1..n |-> TickerWordEnd(user_input, i)], 1)
        found2 == Scan([i \in 1..n |-> TickerQuotedEnd(user_input, i)], 1)
        found3 == Scan([i \in 1..n |-> TickerAfterPrefix(user_input, i).stop], 1)
        all_matches ==
            {SubSeq(user_input, found1[k].start, found1[k].stop - 1) : k \in 1..Len(found1)}
            \cup {SubSeq(user_input, found2[k].start + 1, found2[k].stop - 2) :
                     k \in 1..Len(found2)}
            \cup {SubSeq(user_input, TickerAfterPrefix(user_input, found3[k].start).group,
                         found3[k].stop - 1) : k \in 1..Len(found3)}
    IN {match \in all_matches : match \notin excluded_words}

\* [\d,]
AmountChars == Digits \cup {","}

\* the index after [\d,]+(?:\.\d{2})? at i, or 0
AmountEnd(s, i) ==
    LET e == RunEnd(s, i, AmountChars)
    IN IF e = i THEN 0
       ELSE IF /\ e + 2 <= Len(s)
               /\ s[e] = "."
               /\ IsDigit(s[e + 1])
               /\ IsDigit(s[e + 2])
       THEN e + 3 ELSE e

\* extract_dollar_amounts pattern1, \$[\d,]+(?:\.\d{2})?, at i
DollarAmountEnd(s, i) ==
    IF s[i] = "$" /\ i < Len(s) THEN AmountEnd(s, i + 1) ELSE 0

AmountPrefixes ==
    { <<"g","o","a","l">>,
      <<"s","a","v","e">>,
      <<"c","o","n","t","r","i","b","u","t","e">>,
      <<"a","m","o","u","n","t">>,
      <<"t","o","t","a","l">>,
      <<"h","a","v","e">>,
      <<"w","o","r","t","h">>,
      <<"p","o","r","t","f","o","l","i","o">> }

\* extract_dollar_amounts pattern2, (?:goal|save|...)[\s:]*[\$]?([\d,]+(?:\.\d{2})?)
\* with re.IGNORECASE, at i: where the group starts and the index after it
AmountAfterPrefix(s, i) ==
    LET a == WordEnd(s, i, AmountPrefixes)
        b == IF a = 0 THEN 0 ELSE RunEnd(s, a, SeparatorChars)
        g == IF a # 0 /\ b <= Len(s) /\ s[b] = "$" THEN b + 1 ELSE b
        e == IF a = 0 \/ g > Len(s) THEN 0 ELSE AmountEnd(s, g)
    IN IF e # 0 THEN [group |-> g, stop |-> e] ELSE [group |-> 0, stop |-> 0]

\* match.replace('$', '').replace(',', '')
Clean(match) ==
    LET Kept(c) == c # "$" /\ c # ","
    IN SelectSeq(match, Kept)

\* IntentDetector.extract_dollar_amounts: each amount is kept as the text float() is
\* given; float() raises ValueError for the empty text only, and that match is skipped
extract_dollar_amounts(user_input) ==
    LET n == Len(user_input)
        found1 == Scan([i \in 1..n |-> DollarAmountEnd(user_input, i)], 1)
        found2 == Scan([i \in 1..n |-> AmountAfterPrefix(user_input, i).stop], 1)
        matches == [k \in 1..Len(found1) |->
                       SubSeq(user_input, found1[k].start, found1[k].stop - 1)]
                   \o [k \in 1..Len(found2) |->
                       SubSeq(user_input,
                              AmountAfterPrefix(user_input, found2[k].start).group,
                              found2[k].stop - 1)]
        cleaned == [k \in 1..Len(matches) |-> Clean(matches[k])]
        Parsed(clean) == clean # << >>
    IN SelectSeq(cleaned, Parsed)

\* the index after `word` and an optional s at i, case ignored, or 0
UnitEnd(s, i, word) ==
    IF HasAt(Lower(s), word, i)
    THEN IF i + Len(word) <= Len(s) /\ Lower(<<s[i + Len(word)]>>) = <<"s">>
         THEN i + Len(word) + 1
         ELSE i + Len(word)
    ELSE 0

BUSINESS == <<"b","u","s","i","n","e","s","s">>

\* extract_timeframe: the index after a match of patterns[p] at i, or 0
TimeframeEnd(s, i, p) ==
    IF ~IsDigit(s[i]) THEN 0
    ELSE LET d == RunEnd(s, i, Digits)
             w == RunEnd(s, d, Whitespace)
             b == IF HasAt(Lower(s), BUSINESS, w)
                     /\ RunEnd(s, w + Len(BUSINESS), Whitespace) > w + Len(BUSINESS)
                  THEN RunEnd(s, w + Len(BUSINESS), Whitespace)
                  ELSE 0
         IN CASE p = 1 -> UnitEnd(s, w, <<"y","e","a","r">>)
              [] p = 2 -> UnitEnd(s, w, <<"m","o","n","t","h">>)
              [] p = 3 -> IF b # 0 /\ UnitEnd(s, b, <<"d","a","y">>) # 0
                          THEN UnitEnd(s, b, <<"d","a","y">>)
                          ELSE UnitEnd(s, w, <<"d","a","y">>)
              [] OTHER -> IF d <= Len(s) /\ s[d] \in {"-", "/"}
                             /\ HasAt(Lower(s), <<"y","e","a","r">>, d + 1)
                          THEN d + 5 ELSE 0

\* IntentDetector.extract_timeframe: match.group(0) of the first pattern that is found
\* anywhere in the input, at its leftmost place; the empty text stands for None
RECURSIVE FirstTimeframe(_, _)
FirstTimeframe(s, p) ==
    IF p > 4 THEN << >>
    ELSE LET found == Scan([i \in 1..Len(s) |-> TimeframeEnd(s, i, p)], 1)
         IN IF Len(found) > 0
            THEN SubSeq(s, found[1].start, found[1].stop - 1)
            ELSE FirstTimeframe(s, p + 1)

extract_timeframe(user_input) == FirstTimeframe(user_input, 1)

\* get_confidence_score: the keyword matches counted over the detected intents
RECURSIVE CountKeywordMatches(_, _)
CountKeywordMatches(intents, input_lower) ==
    IF Len(intents) = 0 THEN 0
    ELSE (IF intents[1] \in DOMAIN INTENT_KEYWORDS
          THEN keyword_matches(intents[1], input_lower) ELSE 0)
         + CountKeywordMatches(Tail(intents), input_lower)

Min(a, b) == IF a < b THEN a ELSE b

Max(a, b) == IF a > b THEN a ELSE b

\* get_confidence_score with the first keyword match not counted
get_confidence_score_beyond_first(intents, user_input) ==
    IF InList("unknown", intents) /\ Len(intents) = 1
    THEN 3
    ELSE LET counted == CountKeywordMatches(intents, Lower(user_input))
             score == 5 + Min(3, Max(0, counted - 1))
                        + (IF extract_tickers(user_input) # {} THEN 1 ELSE 0)
                        + (IF extract_dollar_amounts(user_input) # << >> THEN 1 ELSE 0)
                        + (IF extract_timeframe(user_input) # << >> THEN 1 ELSE 0)
         IN Min(10, Max(3, score))

\* IntentDetector.get_confidence_score, in tenths: 0.3 is 3, 0.5 is 5, 0.1 is 1
get_confidence_score(intents, user_input) ==
    IF InList("unknown", intents) /\ Len(intents) = 1
    THEN 3
    ELSE LET counted == CountKeywordMatches(intents, Lower(user_input))
             score == 5 + Min(3, counted)
                        + (IF extract_tickers(user_input) # {} THEN 1 ELSE 0)
                        + (IF extract_dollar_amounts(user_input) # << >> THEN 1 ELSE 0)
                        + (IF extract_timeframe(user_input) # << >> THEN 1 ELSE 0)
         IN Min(10, Max(3, score))

\* ------------------------------------------------------------------------
\* Inputs of the environment: user queries, router-model replies, agent answers,
\* exception messages
\* ------------------------------------------------------------------------

\* the user queries a request is started with; the fourth is MAX_QUERY_LENGTH + 1 long
Inputs ==
    << <<"W","h","a","t"," ","i","s"," ","d","i","v","e","r","s","i","f","i","c","a","t","i","o","n","?">>,
       <<"M","y"," ","S","S","N"," ","i","s"," ","1","2","3","-","4","5","-","6","7","8","9",","," ","h","e","l","p"," ","m","e"," ","i","n","v","e","s","t">>,
       <<"h","i">>,
       [i \in 1..(MAX_QUERY_LENGTH + 1) |-> "a"],
       <<"H","o","w"," ","m","u","c","h"," ","t","a","x"," ","o","n"," ","c","a","p","i","t","a","l"," ","g","a","i","n","s","?">>,
       <<"j","o","e","@","x",".","c","o","m"," ","1","2","3","-","4","5","-","6","7","8","9">>,
       <<"W","h","a","t"," ","i","s"," ","t","h","e"," ","t","a","x"," ","s","t","r","a","t","e","g","y"," ","f","o","r"," ","m","y"," ","p","l","a","n"," ","a","n","d"," ","g","o","a","l","?">>,
       <<"c","a","l","l"," ","5","5","5","-","1","2","3","-","4","5","6","7"," ","n","o","w">>,
       <<"d","r","o","p"," ","t","a","b","l","e">> >>

\* replies of the router model (response.choices[0].message.content)
RouterReplies ==
    << <<"t","a","x">>,
       <<"T","A","X">>,
       <<" ","p","o","r","t","f","o","l","i","o","\n">>,
       <<"m","a","r","k","e","t">>,
       <<"g","o","a","l">>,
       <<"n","e","w","s">>,
       <<"f","i","n","a","n","c","e","_","q","a">>,
       <<"b","a","n","a","n","a">>,
       <<>>,
       <<"t","a","x"," ","a","g","e","n","t">> >>

\* answer texts an agent (its generative model) returns
Answers ==
    << <<"D","i","v","e","r","s","i","f","i","c","a","t","i","o","n"," ","s","p","r","e","a","d","s"," ","r","i","s","k",".">>,
       <<"Y","o","u","r"," ","S","S","N"," ","1","2","3","-","4","5","-","6","7","8","9"," ","i","s"," ","o","n"," ","f","i","l","e",".">>,
       <<"C","o","n","s","i","d","e","r"," ","a"," ","R","o","t","h"," ","I","R","A",".">> >>

\* AgentOutput.citations of the output with each answer: the list format_citations or
\* _extract_citations built from the retrieved chunks, one entry per source_url
AnswerCitations ==
    << << [title |-> "Diversification basics", source_url |-> "url_a", category |-> "general"],
          [title |-> "Asset classes", source_url |-> "url_b", category |-> "general"] >>,
       << >>,
       << [title |-> "Asset classes", source_url |-> "url_b", category |-> "general"],
          [title |-> "Roth IRA rules", source_url |-> "url_c", category |-> "tax"] >> >>

\* str(e) of the exceptions a model call, a retrieval or an agent raises
ErrorMessages ==
    [ connection_error |-> <<"C","o","n","n","e","c","t","i","o","n"," ","e","r","r","o","r",".">>,
      timed_out |-> <<"R","e","q","u","e","s","t"," ","t","i","m","e","d"," ","o","u","t",".">> ]

\* LangGraphOrchestrator._node_router: valid_agents, and each name's characters
valid_agents == <<"finance_qa", "portfolio", "market", "goal", "tax", "news">>

AgentNameChars ==
    [ finance_qa |-> <<"f","i","n","a","n","c","e","_","q","a">>,
      portfolio |-> <<"p","o","r","t","f","o","l","i","o">>,
      market |-> <<"m","a","r","k","e","t">>,
      goal |-> <<"g","o","a","l">>,
      tax |-> <<"t","a","x">>,
      news |-> <<"n","e","w","s">> ]

InputIds == 1..Len(Inputs)

AnswerIds == 1..Len(Answers)

ErrorIds == DOMAIN ErrorMessages

\* what one call of an agent's execute() does: returns an AgentOutput or raises
AgentOutcomes ==
    [kind : {"success"}, answer : AnswerIds, error : {"none"}]
      \cup [kind : {"raise"}, answer : {0}, error : ErrorIds]

\* what the router's chat.completions.create call does: replies or raises
RouterOutcomes ==
    [kind : {"reply"}, reply : 1..Len(RouterReplies), error : {"none"}]
      \cup [kind : {"raise"}, reply : {0}, error : ErrorIds]

\* what FinanceQAAgent() followed by agent.execute() does in the synthesis node:
\* the constructor raises, execute raises, or execute returns an AgentOutput
SynthesisOutcomes ==
    AgentOutcomes \cup [kind : {"init_raise"}, answer : {0}, error : ErrorIds]

\* ------------------------------------------------------------------------
\* src/orchestration/agent_executor.py and response_synthesizer.py: the texts
\* ------------------------------------------------------------------------

\* the characters of each AgentType value
AgentTypeChars ==
    [ finance_qa |-> <<"f","i","n","a","n","c","e","_","q","a">>,
      portfolio_analysis |-> <<"p","o","r","t","f","o","l","i","o","_","a","n","a","l","y","s","i","s">>,
      market_analysis |-> <<"m","a","r","k","e","t","_","a","n","a","l","y","s","i","s">>,
      goal_planning |-> <<"g","o","a","l","_","p","l","a","n","n","i","n","g">>,
      tax_education |-> <<"t","a","x","_","e","d","u","c","a","t","i","o","n">>,
      news_synthesizer |-> <<"n","e","w","s","_","s","y","n","t","h","e","s","i","z","e","r">> ]

\* execute_agent: error_msg = f"Agent {agent_type.value} failed: {str(e)}"
AGENT_FAILED_HEAD ==
    <<"A","g","e","n","t"," ">>

AGENT_FAILED_MID ==
    <<" ","f","a","i","l","e","d",":"," ">>

\* str(output) of the AgentOutput dataclass an agent returned (no structured data,
\* citations or tool calls; the answers hold no character repr() escapes)
AGENT_OUTPUT_REPR_HEAD ==
    <<"A","g","e","n","t","O","u","t","p","u","t","(","a","n","s","w","e","r","_","t","e","x","t","=","'">>

AGENT_OUTPUT_REPR_TAIL ==
    <<"'",","," ","s","t","r","u","c","t","u","r","e","d","_","d","a","t","a","=","N","o","n","e",","," ","c",
      "i","t","a","t","i","o","n","s","=","[","]",","," ","t","o","o","l","_","c","a","l","l","s","_","m","a",
      "d","e","=","[","]",")">>

\* ResponseSynthesizer: the fixed texts
SINGLE_ERROR_HEAD ==
    <<"I"," ","e","n","c","o","u","n","t","e","r","e","d"," ","a","n"," ","e","r","r","o","r"," ","w","h","i",
      "l","e"," ","p","r","o","c","e","s","s","i","n","g"," ","y","o","u","r"," ","r","e","q","u","e","s","t",
      ":"," ">>

SINGLE_ERROR_TAIL ==
    <<"."," ","P","l","e","a","s","e"," ","t","r","y"," ","r","e","p","h","r","a","s","i","n","g"," ","y","o",
      "u","r"," ","q","u","e","s","t","i","o","n",".">>

UNKNOWN_ERROR ==
    <<"U","n","k","n","o","w","n"," ","e","r","r","o","r">>

NO_RESPONSE ==
    <<"I"," ","w","a","s"," ","u","n","a","b","l","e"," ","t","o"," ","g","e","n","e","r","a","t","e"," ","a",
      " ","r","e","s","p","o","n","s","e"," ","f","o","r"," ","y","o","u","r"," ","q","u","e","r","y","."," ",
      "P","l","e","a","s","e"," ","t","r","y"," ","r","e","p","h","r","a","s","i","n","g"," ","o","r"," ","p",
      "r","o","v","i","d","e"," ","m","o","r","e"," ","s","p","e","c","i","f","i","c"," ","i","n","f","o","r",
      "m","a","t","i","o","n",".">>

SECTION_PORTFOLIO ==
    <<"*","*","P","o","r","t","f","o","l","i","o"," ","A","n","a","l","y","s","i","s",":","*","*","\n">>

SECTION_MARKET ==
    <<"*","*","M","a","r","k","e","t"," ","D","a","t","a",":","*","*","\n">>

SECTION_PLANNING ==
    <<"*","*","F","i","n","a","n","c","i","a","l"," ","P","r","o","j","e","c","t","i","o","n","s",":","*","*",
      "\n">>

SECTION_TAX ==
    <<"*","*","T","a","x"," ","I","n","f","o","r","m","a","t","i","o","n",":","*","*","\n">>

SECTION_INFORMATION ==
    <<"*","*","I","n","f","o","r","m","a","t","i","o","n",":","*","*","\n">>

MULTI_ERROR_HEAD ==
    <<"I"," ","e","n","c","o","u","n","t","e","r","e","d"," ","e","r","r","o","r","s"," ","w","h","i","l","e",
      " ","p","r","o","c","e","s","s","i","n","g"," ","y","o","u","r"," ","r","e","q","u","e","s","t",":","\n">>

MULTI_ERROR_TAIL ==
    <<"\n","\n","P","l","e","a","s","e"," ","t","r","y"," ","r","e","p","h","r","a","s","i","n","g"," ","y",
      "o","u","r"," ","q","u","e","s","t","i","o","n",".">>

SECTION_SEPARATOR ==
    <<"\n","\n">>

LINE_SEPARATOR ==
    <<"\n">>

BULLET ==
    <<"-"," ">>

\* OrchestratorWorkflow.execute_workflow: state.add_error(f"Workflow error: {str(e)}")
WORKFLOW_ERROR_HEAD ==
    <<"W","o","r","k","f","l","o","w"," ","e","r","r","o","r",":"," ">>

\* AgentExecutor.execute: state.add_error("No agents selected")
NO_AGENTS_SELECTED ==
    <<"N","o"," ","a","g","e","n","t","s"," ","s","e","l","e","c","t","e","d">>

\* Config.CONVERSATION_MAX_HISTORY (its default)
CONVERSATION_MAX_HISTORY == 20

\* ------------------------------------------------------------------------
\* src/orchestration/agent_executor.py: AgentExecutor.execute_agent
\* ------------------------------------------------------------------------

\* execute_agent without its except branch: the agent's exception leaves the coroutine
execute_agent_uncaught(agent_type, outcome) ==
    IF outcome.kind = "success"
    THEN [status |-> "success", output |-> outcome.answer, error |-> << >>,
          agent |-> agent_type]
    ELSE [status |-> "raised", output |-> 0, error |-> ErrorMessages[outcome.error],
          agent |-> agent_type]

\* the result dict for what the agent's execute() did: output 0 is the missing "output"
\* key of an error result, error << >> the missing "error" key of a success result
execute_agent(agent_type, outcome) ==
    IF outcome.kind = "success"
    THEN [status |-> "success", output |-> outcome.answer, error |-> << >>,
          agent |-> agent_type]
    ELSE [status |-> "error", output |-> 0,
          error |-> AGENT_FAILED_HEAD \o AgentTypeChars[agent_type] \o AGENT_FAILED_MID
                       \o ErrorMessages[outcome.error],
          agent |-> agent_type]

\* a coroutine of execute_agent that has not returned yet
PendingTask(agent_type) ==
    [status |-> "pending", output |-> 0, error |-> << >>, agent |-> agent_type]

\* ------------------------------------------------------------------------
\* src/orchestration/response_synthesizer.py: ResponseSynthesizer
\* ------------------------------------------------------------------------

\* state.agent_outputs.get(agent_type.value, {})
AgentOutputOf(state, agent_type) ==
    IF agent_type \in DOMAIN state.agent_outputs
    THEN state.agent_outputs[agent_type]
    ELSE [status |-> "missing", output |-> 0, error |-> << >>, agent |-> agent_type]

\* agent_output.get("error", "Unknown error")
ErrorOf(agent_output) ==
    IF agent_output.error = << >> THEN UNKNOWN_ERROR ELSE agent_output.error

\* _extract_response_text: an AgentOutput is neither a str nor a dict and has no
\* attribute "response", so the text is str(agent_output)
_extract_response_text(output) ==
    IF output = 0 THEN << >>
    ELSE AGENT_OUTPUT_REPR_HEAD \o Answers[output] \o AGENT_OUTPUT_REPR_TAIL

\* synthesize_single_agent
synthesize_single_agent(state, agent_type) ==
    LET agent_output == AgentOutputOf(state, agent_type)
        response_text == _extract_response_text(agent_output.output)
    IN IF agent_output.status = "error"
       THEN SINGLE_ERROR_HEAD \o ErrorOf(agent_output) \o SINGLE_ERROR_TAIL
       ELSE IF response_text # << >> THEN response_text ELSE NO_RESPONSE

\* synthesize_multi_agent: the bucket an agent is grouped into
BucketOf(agent_type) ==
    IF agent_type = "portfolio_analysis" THEN "portfolio"
    ELSE IF agent_type = "market_analysis" THEN "market"
    ELSE IF agent_type = "goal_planning" THEN "planning"
    ELSE "education"

\* synthesize_multi_agent: the heading of an agent's section
SectionHead(agent_type) ==
    IF agent_type = "portfolio_analysis" THEN SECTION_PORTFOLIO
    ELSE IF agent_type = "market_analysis" THEN SECTION_MARKET
    ELSE IF agent_type = "goal_planning" THEN SECTION_PLANNING
    ELSE IF agent_type = "tax_education" THEN SECTION_TAX
    ELSE SECTION_INFORMATION

\* synthesize_multi_agent: the sections of one bucket, in selection order
RECURSIVE BucketSections(_, _, _)
BucketSections(state, agents, bucket) ==
    IF Len(agents) = 0 THEN << >>
    ELSE LET agent_output == AgentOutputOf(state, Head(agents))
             response == _extract_response_text(agent_output.output)
             rest == BucketSections(state, Tail(agents), bucket)
         IN IF /\ BucketOf(Head(agents)) = bucket
               /\ agent_output.status = "success"
               /\ response # << >>
            THEN <<SectionHead(Head(agents)) \o response>> \o rest
            ELSE rest

\* synthesize_multi_agent with the planning bucket processed first
synthesize_multi_agent_planning_first(state) ==
    LET sections == BucketSections(state, state.selected_agents, "planning")
                       \o BucketSections(state, state.selected_agents, "portfolio")
                       \o BucketSections(state, state.selected_agents, "market")
                       \o BucketSections(state, state.selected_agents, "education")
        errors == [i \in 1..Len(state.selected_agents) |->
                      BULLET \o ErrorOf(AgentOutputOf(state, state.selected_agents[i]))]
    IN IF Len(sections) > 0
       THEN Join(sections, SECTION_SEPARATOR)
       ELSE MULTI_ERROR_HEAD \o Join(errors, LINE_SEPARATOR) \o MULTI_ERROR_TAIL

\* synthesize_multi_agent
synthesize_multi_agent(state) ==
    LET sections == BucketSections(state, state.selected_agents, "portfolio")
                       \o BucketSections(state, state.selected_agents, "market")
                       \o BucketSections(state, state.selected_agents, "planning")
                       \o BucketSections(state, state.selected_agents, "education")
        errors == [i \in 1..Len(state.selected_agents) |->
                      BULLET \o ErrorOf(AgentOutputOf(state, state.selected_agents[i]))]
    IN IF Len(sections) > 0
       THEN Join(sections, SECTION_SEPARATOR)
       ELSE MULTI_ERROR_HEAD \o Join(errors, LINE_SEPARATOR) \o MULTI_ERROR_TAIL

\* synthesize: the response text
SynthesizedResponse(state) ==
    IF Len(state.selected_agents) = 1
    THEN synthesize_single_agent(state, state.selected_agents[1])
    ELSE synthesize_multi_agent(state)

\* ------------------------------------------------------------------------
\* src/core/guardrails.py: RateLimiter
\* ------------------------------------------------------------------------

\* the users of the sample
Users == {"u1", "u2"}

\* the user a request through LangGraphOrchestrator.execute comes from
Requester == "u1"

\* the length of one clock tick in seconds; the windows of is_allowed in ticks
TickSeconds == 30

MinuteTicks == 60 \div TickSeconds

HourTicks == 3600 \div TickSeconds

DayTicks == 86400 \div TickSeconds

\* [r for r in requests if r > since]
RequestsAfter(requests, since) ==
    SelectSeq(requests, LAMBDA r : r > since)

\* is_allowed with the per-minute comparison > in place of >=
is_allowed_minute_gt(user_requests, user_id, now) ==
    LET known == IF user_id \in DOMAIN user_requests
                 THEN user_requests
                 ELSE (user_id :> << >>) @@ user_requests
        requests == RequestsAfter(known[user_id], now - DayTicks)
        cleaned == [known EXCEPT ![user_id] = requests]
        minute_count == Len(RequestsAfter(requests, now - MinuteTicks))
        hour_count == Len(RequestsAfter(requests, now - HourTicks))
        day_count == Len(requests)
    IN IF minute_count > QUERIES_PER_MINUTE
       THEN [allowed |-> FALSE, error |-> "queries/minute", user_requests |-> cleaned]
       ELSE IF hour_count >= QUERIES_PER_HOUR
       THEN [allowed |-> FALSE, error |-> "queries/hour", user_requests |-> cleaned]
       ELSE IF day_count >= QUERIES_PER_DAY
       THEN [allowed |-> FALSE, error |-> "queries/day", user_requests |-> cleaned]
       ELSE [allowed |-> TRUE, error |-> "none",
             user_requests |-> [cleaned EXCEPT ![user_id] = Append(requests, now)]]

\* is_allowed counting the requests of every user against the caller's caps
is_allowed_counts_all_users(user_requests, user_id, now) ==
    LET known == IF user_id \in DOMAIN user_requests
                 THEN user_requests
                 ELSE (user_id :> << >>) @@ user_requests
        requests == RequestsAfter(known[user_id], now - DayTicks)
        cleaned == [known EXCEPT ![user_id] = requests]
        Count(since) == Cardinality({<<u, i>> \in (DOMAIN cleaned) \X (1..QUERIES_PER_DAY) :
                                        i <= Len(cleaned[u]) /\ cleaned[u][i] > since})
        minute_count == Count(now - MinuteTicks)
        hour_count == Count(now - HourTicks)
        day_count == Count(now - DayTicks)
    IN IF minute_count >= QUERIES_PER_MINUTE
       THEN [allowed |-> FALSE, error |-> "queries/minute", user_requests |-> cleaned]
       ELSE IF hour_count >= QUERIES_PER_HOUR
       THEN [allowed |-> FALSE, error |-> "queries/hour", user_requests |-> cleaned]
       ELSE IF day_count >= QUERIES_PER_DAY
       THEN [allowed |-> FALSE, error |-> "queries/day", user_requests |-> cleaned]
       ELSE [allowed |-> TRUE, error |-> "none",
             user_requests |-> [cleaned EXCEPT ![user_id] = Append(requests, now)]]

\* is_allowed with the per-day comparison > in place of >=
is_allowed_day_gt(user_requests, user_id, now) ==
    LET known == IF user_id \in DOMAIN user_requests
                 THEN user_requests
                 ELSE (user_id :> << >>) @@ user_requests
        requests == RequestsAfter(known[user_id], now - DayTicks)
        cleaned == [known EXCEPT ![user_id] = requests]
        minute_count == Len(RequestsAfter(requests, now - MinuteTicks))
        hour_count == Len(RequestsAfter(requests, now - HourTicks))
        day_count == Len(requests)
    IN IF minute_count >= QUERIES_PER_MINUTE
       THEN [allowed |-> FALSE, error |-> "queries/minute", user_requests |-> cleaned]
       ELSE IF hour_count >= QUERIES_PER_HOUR
       THEN [allowed |-> FALSE, error |-> "queries/hour", user_requests |-> cleaned]
       ELSE IF day_count > QUERIES_PER_DAY
       THEN [allowed |-> FALSE, error |-> "queries/day", user_requests |-> cleaned]
       ELSE [allowed |-> TRUE, error |-> "none",
             user_requests |-> [cleaned EXCEPT ![user_id] = Append(requests, now)]]

\* is_allowed recording the request it rejects
is_allowed_records_rejected(user_requests, user_id, now) ==
    LET known == IF user_id \in DOMAIN user_requests
                 THEN user_requests
                 ELSE (user_id :> << >>) @@ user_requests
        requests == RequestsAfter(known[user_id], now - DayTicks)
        recorded == [known EXCEPT ![user_id] = Append(requests, now)]
        minute_count == Len(RequestsAfter(requests, now - MinuteTicks))
        hour_count == Len(RequestsAfter(requests, now - HourTicks))
        day_count == Len(requests)
    IN IF minute_count >= QUERIES_PER_MINUTE
       THEN [allowed |-> FALSE, error |-> "queries/minute", user_requests |-> recorded]
       ELSE IF hour_count >= QUERIES_PER_HOUR
       THEN [allowed |-> FALSE, error |-> "queries/hour", user_requests |-> recorded]
       ELSE IF day_count >= QUERIES_PER_DAY
       THEN [allowed |-> FALSE, error |-> "queries/day", user_requests |-> recorded]
       ELSE [allowed |-> TRUE, error |-> "none", user_requests |-> recorded]

\* RateLimiter.is_allowed at time now: the decision, the limit that rejected, and the
\* user_requests dict the call leaves
is_allowed(user_requests, user_id, now) ==
    LET known == IF user_id \in DOMAIN user_requests
                 THEN user_requests
                 ELSE (user_id :> << >>) @@ user_requests
        requests == RequestsAfter(known[user_id], now - DayTicks)
        cleaned == [known EXCEPT ![user_id] = requests]
        minute_count == Len(RequestsAfter(requests, now - MinuteTicks))
        hour_count == Len(RequestsAfter(requests, now - HourTicks))
        day_count == Len(requests)
    IN IF minute_count >= QUERIES_PER_MINUTE
       THEN [allowed |-> FALSE, error |-> "queries/minute", user_requests |-> cleaned]
       ELSE IF hour_count >= QUERIES_PER_HOUR
       THEN [allowed |-> FALSE, error |-> "queries/hour", user_requests |-> cleaned]
       ELSE IF day_count >= QUERIES_PER_DAY
       THEN [allowed |-> FALSE, error |-> "queries/day", user_requests |-> cleaned]
       ELSE [allowed |-> TRUE, error |-> "none",
             user_requests |-> [cleaned EXCEPT ![user_id] = Append(requests, now)]]

\* ------------------------------------------------------------------------
\* bounds of the explored runs
\* ------------------------------------------------------------------------

\* the agent-execution clock stops after MaxClock ticks of ClockTickMs milliseconds
ClockTickMs == 20000

MaxClock == 4

\* the longest list of detected intents handed to the deterministic router
MaxIntents == 3

\* the rate limiter's clock stops at MaxNow ticks; MaxCalls calls of is_allowed are
\* made in all
MaxNow == 2

MaxCalls == 12

\* the requests in flight at once on one event loop
MaxInFlight == 2

\* the longest query handed to validate_query, in pieces
MaxPieces == 2

\* the longest history a conversation starts from
MaxPrior == 2

\* the largest max_history a manager is constructed with
MaxHistory == 2

\* the turns of a conversation
MaxTurns == 3

\* the phrases of a query
MaxWords == 3

VARIABLES
    lg_pc,          \* the node of the compiled graph that runs next, or done / raised
    lg,             \* the LangGraphState threaded through the nodes
    lg_result,      \* the dict LangGraphOrchestrator.execute returns
    lg_invoked,     \* every agent execute() call of the request, in order
    lg_llm_calls,   \* the router model calls: the user input sent and what the call did
    lg_audit_log,   \* the AuditLog entries created for the request (AuditLogger.create_log)
    wf_pc,          \* where OrchestratorWorkflow.execute_workflow stands
    wf,             \* the OrchestrationState of the request
    wf_tasks,       \* the execute_agent coroutines of the executor, by position
    wf_outcomes,    \* what each agent's execute() did, by position (for the properties)
    wf_clock,       \* ticks elapsed since the executor started its agents
    wf_invoked,     \* every agent execute() call of the request, in order
    wf_context,     \* the executor's current_context keys, and those passed to each call
    rl_user_requests, \* RateLimiter.user_requests
    rl_now,         \* datetime.now(), in ticks
    rl_calls,       \* per user, the is_allowed calls made: when, and the decision
    rl_inflight,    \* per request in flight, its place in is_allowed and its locals
    rl_running,     \* the request, if any, whose is_allowed call the event loop is running
    rt_pc,          \* the deterministic router: "call" before, "routed" after
    rt_intents,     \* state.detected_intents handed to make_routing_decision
    rt_agents,      \* decision.agents
    cm_pc,          \* the conversation: "turn" before node_input, "synthesis" before node_synthesis
    cm_manager,     \* the ConversationManager of the workflow
    cm_state,       \* the conversation_history and conversation_summary the caller carries
    cm_call,        \* the last trim_history call: its argument and what it returned
    cm_evicted,     \* how many messages of the conversation are no longer in the history
    cm_turns,       \* the turns of the conversation so far
    id_pc,          \* the intent detector: "detect" before node_intent_detection, "detected" after
    id_input,       \* state.user_input
    id_state,       \* what node_intent_detection stored in the state
    pf_pc,          \* a call of a function of the guardrails: "call" before, "returned" after
    pf_call         \* the function called, its arguments and, once returned, its result

lg_vars == <<lg_pc, lg, lg_result, lg_invoked, lg_llm_calls, lg_audit_log>>

wf_vars == <<wf_pc, wf, wf_tasks, wf_outcomes, wf_clock, wf_invoked, wf_context>>

rl_vars == <<rl_user_requests, rl_now, rl_calls, rl_inflight, rl_running>>

rt_vars == <<rt_pc, rt_intents, rt_agents>>

cm_vars == <<cm_pc, cm_manager, cm_state, cm_call, cm_evicted, cm_turns>>

id_vars == <<id_pc, id_input, id_state>>

pf_vars == <<pf_pc, pf_call>>

vars == <<lg_vars, wf_vars, rl_vars, rt_vars, cm_vars, id_vars, pf_vars>>

\* ------------------------------------------------------------------------
\* src/orchestration/langgraph_workflow.py: LangGraphOrchestrator
\* ------------------------------------------------------------------------

NoResult == [returned |-> FALSE]

\* execute(): initial_state
initial_state(user_input) ==
    [ user_input |-> user_input,
      workflow_started_at |-> FALSE,
      detected_intents |-> << >>,
      primary_intent |-> "unknown",
      selected_agents |-> << >>,
      selected_agent |-> "",
      routing_rationale |-> "",
      agent_executions |-> << >>,
      execution_errors |-> << >>,
      execution_times |-> {},
      final_response |-> << >>,
      citations |-> << >>,
      confidence |-> 0,
      metadata |-> << >>,
      input_validated |-> FALSE,
      guardrail_errors |-> << >>,
      pii_detected |-> FALSE ]

\* _node_input up to the end of the guardrail checks; confidence is held in hundredths
\* and an entry of execution_errors as the prefix of its message and the detail after
\* the colon
_node_input(state) ==
    LET started == [state EXCEPT !.workflow_started_at = TRUE,
                                 !.guardrail_errors = << >>,
                                 !.input_validated = FALSE,
                                 !.pii_detected = FALSE]
        checked == validate_query(Inputs[state.user_input])
        pii_types == detect(Inputs[state.user_input])
    IN IF ~checked.is_valid
       THEN [started EXCEPT
                !.execution_errors = Append(@, [source |-> "Input validation failed",
                                                detail |-> <<checked.error>>]),
                !.final_response = VALIDATION_REJECTED,
                !.confidence = 0]
       ELSE IF Len(pii_types) > 0
       THEN [started EXCEPT
                !.input_validated = TRUE,
                !.pii_detected = TRUE,
                !.execution_errors = Append(@, [source |-> "PII detected",
                                                detail |-> pii_types]),
                !.final_response = get_warning(pii_types),
                !.confidence = 0]
       ELSE [started EXCEPT !.input_validated = TRUE]

\* _node_intent_detection
_node_intent_detection(state) ==
    LET intents == detect_intents(Inputs[state.user_input])
    IN [state EXCEPT !.detected_intents = intents,
                     !.primary_intent = IF Len(intents) > 0 THEN intents[1] ELSE "unknown"]

\* the name of a router reply taken without the check against valid_agents
SelectedOf_unchecked(reply) ==
    LET selected == Lower(Strip(reply))
    IN IF \E i \in 1..Len(valid_agents) : AgentNameChars[valid_agents[i]] = selected
       THEN valid_agents[CHOOSE i \in 1..Len(valid_agents) :
                            AgentNameChars[valid_agents[i]] = selected]
       ELSE "unchecked"

\* the validated name of a router reply: content.strip().lower(), finance_qa when it
\* is not in valid_agents
SelectedOf(reply) ==
    LET selected == Lower(Strip(reply))
    IN IF \E i \in 1..Len(valid_agents) : AgentNameChars[valid_agents[i]] = selected
       THEN valid_agents[CHOOSE i \in 1..Len(valid_agents) :
                            AgentNameChars[valid_agents[i]] = selected]
       ELSE "finance_qa"

\* _node_router, given what the model call did (it is not made when the input was
\* not validated)
_node_router(state, llm) ==
    IF ~state.input_validated
    THEN [state EXCEPT !.selected_agent = "finance_qa",
                       !.routing_rationale = "Guardrail blocked input, using fallback agent"]
    ELSE IF llm.kind = "reply"
    THEN [state EXCEPT !.selected_agent = SelectedOf(RouterReplies[llm.reply]),
                       !.selected_agents = <<SelectedOf(RouterReplies[llm.reply])>>,
                       !.routing_rationale = "LLM router selected"]
    ELSE [state EXCEPT !.selected_agent = "finance_qa",
                       !.selected_agents = <<"finance_qa">>,
                       !.routing_rationale = "Routing error, using fallback",
                       !.execution_errors = Append(@, [source |-> "Router error",
                                                       detail |-> ErrorMessages[llm.error]])]

\* _route_to_agent: the conditional edge out of the router
_route_to_agent(state) ==
    IF InList(state.selected_agent, valid_agents) THEN state.selected_agent ELSE "finance_qa"

\* the AgentType each agent node passes to _execute_single_agent
NodeAgentType ==
    [ finance_qa |-> "finance_qa",
      portfolio |-> "portfolio_analysis",
      market |-> "market_analysis",
      goal |-> "goal_planning",
      tax |-> "tax_education",
      news |-> "news_synthesizer" ]


\* _execute_single_agent: record the execution result of the agent node, or only the
\* error when the call of execute_agent raised
_execute_single_agent(state, agent_name, execution_result) ==
    LET execution_record == [agent |-> agent_name,
                             status |-> execution_result.status,
                             output |-> execution_result.output,
                             error |-> execution_result.error]
        recorded == [state EXCEPT
                        !.agent_executions = Append(@, execution_record),
                        !.execution_times = @ \cup {agent_name}]
    IN IF execution_result.status = "raised"
       THEN [state EXCEPT
                !.execution_errors = Append(@, [source |-> agent_name,
                                                detail |-> execution_result.error])]
       ELSE IF execution_result.status = "error"
       THEN [recorded EXCEPT
                !.execution_errors = Append(@, [source |-> agent_name,
                                                detail |-> execution_result.error])]
       ELSE recorded

\* _node_synthesis, given what FinanceQAAgent() and its execute() did
_node_synthesis(state, synth) ==
    IF synth.kind # "success"
    THEN [state EXCEPT
             !.final_response = SYNTHESIS_ERROR_HEAD \o ErrorMessages[synth.error],
             !.confidence = 0]
    ELSE IF Len(detect(Answers[synth.answer])) > 0
    THEN [state EXCEPT !.final_response = REDACTION_NOTICE,
                       !.confidence = 0]
    ELSE [state EXCEPT
             !.final_response = add_disclaimers(Answers[synth.answer], state.detected_intents),
             !.citations = AnswerCitations[synth.answer],
             !.confidence = 85,
             !.metadata = [agents_used |-> state.selected_agents,
                           intent |-> state.primary_intent,
                           total_agents |-> Len(state.selected_agents),
                           errors |-> Len(state.execution_errors)]]

\* execute(): the dict returned to the caller
FinalResult(final_state) ==
    [ returned |-> TRUE,
      response |-> final_state.final_response,
      citations |-> final_state.citations,
      confidence |-> final_state.confidence,
      intent |-> final_state.primary_intent,
      agents_used |-> final_state.selected_agents,
      execution_times |-> final_state.execution_times,
      metadata |-> final_state.metadata ]

\* execute() is called with a user query
LG_Init ==
    /\ lg_pc = "input"
    /\ lg \in {initial_state(u) : u \in InputIds}
    /\ lg_result = NoResult
    /\ lg_invoked = << >>
    /\ lg_llm_calls = << >>
    /\ lg_audit_log = << >>

\* node "input"; the edge input -> intent_detection is unconditional
LG_NodeInput ==
    /\ lg_pc = "input"
    /\ lg' = _node_input(lg)
    /\ lg_pc' = "intent_detection"
    /\ UNCHANGED <<lg_result, lg_invoked, lg_llm_calls>>
    /\ UNCHANGED lg_audit_log
    /\ UNCHANGED <<wf_vars, rl_vars, rt_vars, cm_vars, id_vars, pf_vars>>

\* node "intent_detection"
LG_NodeIntentDetection ==
    /\ lg_pc = "intent_detection"
    /\ lg' = _node_intent_detection(lg)
    /\ lg_pc' = "router"
    /\ UNCHANGED <<lg_result, lg_invoked, lg_llm_calls>>
    /\ UNCHANGED lg_audit_log
    /\ UNCHANGED <<wf_vars, rl_vars, rt_vars, cm_vars, id_vars, pf_vars>>

\* code of a node outside any try block raises (the input node before and after its
\* guardrail blocks, the whole intent_detection node): graph.ainvoke re-raises and
\* execute() has no handler, so the exception reaches the caller
LG_NodeRaises ==
    /\ lg_pc \in {"input", "intent_detection"}
    /\ lg_pc' = "raised"
    /\ UNCHANGED <<lg, lg_result, lg_invoked, lg_llm_calls>>
    /\ UNCHANGED lg_audit_log
    /\ UNCHANGED <<wf_vars, rl_vars, rt_vars, cm_vars, id_vars, pf_vars>>

\* node "router": one model call unless the input was not validated
LG_NodeRouter ==
    /\ lg_pc = "router"
    /\ IF lg.input_validated
       THEN \E llm \in RouterOutcomes :
               /\ lg' = _node_router(lg, llm)
               /\ lg_llm_calls' = Append(lg_llm_calls, [prompt |-> lg.user_input, outcome |-> llm])
       ELSE /\ lg' = _node_router(lg, [kind |-> "none"])
            /\ UNCHANGED lg_llm_calls
    /\ lg_pc' = "agent"
    /\ UNCHANGED <<lg_result, lg_invoked>>
    /\ UNCHANGED lg_audit_log
    /\ UNCHANGED <<wf_vars, rl_vars, rt_vars, cm_vars, id_vars, pf_vars>>

\* the agent node the conditional edge selects
LG_NodeAgent ==
    /\ lg_pc = "agent"
    /\ \E outcome \in AgentOutcomes :
          LET agent_name == _route_to_agent(lg)
          IN /\ lg' = _execute_single_agent(lg, agent_name,
                          execute_agent(NodeAgentType[agent_name], outcome))
             /\ lg_invoked' = Append(lg_invoked, NodeAgentType[agent_name])
    /\ lg_pc' = "synthesis"
    /\ UNCHANGED <<lg_result, lg_llm_calls>>
    /\ UNCHANGED lg_audit_log
    /\ UNCHANGED <<wf_vars, rl_vars, rt_vars, cm_vars, id_vars, pf_vars>>

\* node "synthesis", which runs a FinanceQAAgent of its own
LG_NodeSynthesis ==
    /\ lg_pc = "synthesis"
    /\ \E synth \in SynthesisOutcomes :
          /\ lg' = _node_synthesis(lg, synth)
          /\ lg_invoked' = IF synth.kind = "init_raise"
                           THEN lg_invoked
                           ELSE Append(lg_invoked, "finance_qa")
    /\ lg_pc' = "END"
    /\ UNCHANGED <<lg_result, lg_llm_calls>>
    /\ UNCHANGED lg_audit_log
    /\ UNCHANGED <<wf_vars, rl_vars, rt_vars, cm_vars, id_vars, pf_vars>>

\* execute() after graph.ainvoke returned
LG_Return ==
    /\ lg_pc = "END"
    /\ lg_result' = FinalResult(lg)
    /\ lg_pc' = "done"
    /\ UNCHANGED <<lg, lg_invoked, lg_llm_calls>>
    /\ UNCHANGED lg_audit_log
    /\ UNCHANGED <<wf_vars, rl_vars, rt_vars, cm_vars, id_vars, pf_vars>>

LG_Next ==
    \/ LG_NodeInput
    \/ LG_NodeIntentDetection
    \/ LG_NodeRaises
    \/ LG_NodeRouter
    \/ LG_NodeAgent
    \/ LG_NodeSynthesis
    \/ LG_Return

\* ------------------------------------------------------------------------
\* src/core/conversation_manager.py: ConversationManager
\* ------------------------------------------------------------------------

\* Config.CONVERSATION_SUMMARY_LENGTH (its default)
CONVERSATION_SUMMARY_LENGTH == 500

\* create_summary: the financial_keywords dict, in its insertion order
financial_keywords ==
    << [keyword |-> <<"p","o","r","t","f","o","l","i","o">>,
        topic_name |-> <<"P","o","r","t","f","o","l","i","o"," ","A","n","a","l","y","s","i","s">>],
       [keyword |-> <<"s","t","o","c","k">>,
        topic_name |-> <<"S","t","o","c","k"," ","M","a","r","k","e","t">>],
       [keyword |-> <<"b","o","n","d">>,
        topic_name |-> <<"B","o","n","d","s">>],
       [keyword |-> <<"e","t","f">>,
        topic_name |-> <<"E","T","F","s">>],
       [keyword |-> <<"d","i","v","e","r","s","i","f","i","c","a","t","i","o","n">>,
        topic_name |-> <<"D","i","v","e","r","s","i","f","i","c","a","t","i","o","n">>],
       [keyword |-> <<"r","e","b","a","l","a","n","c","e">>,
        topic_name |-> <<"R","e","b","a","l","a","n","c","i","n","g">>],
       [keyword |-> <<"g","o","a","l">>,
        topic_name |-> <<"F","i","n","a","n","c","i","a","l"," ","G","o","a","l","s">>],
       [keyword |-> <<"r","e","t","i","r","e","m","e","n","t">>,
        topic_name |-> <<"R","e","t","i","r","e","m","e","n","t"," ","P","l","a","n","n","i","n","g">>],
       [keyword |-> <<"t","a","x">>,
        topic_name |-> <<"T","a","x"," ","P","l","a","n","n","i","n","g">>],
       [keyword |-> <<"r","i","s","k">>,
        topic_name |-> <<"R","i","s","k"," ","M","a","n","a","g","e","m","e","n","t">>],
       [keyword |-> <<"a","l","l","o","c","a","t","i","o","n">>,
        topic_name |-> <<"A","s","s","e","t"," ","A","l","l","o","c","a","t","i","o","n">>],
       [keyword |-> <<"d","i","v","i","d","e","n","d">>,
        topic_name |-> <<"D","i","v","i","d","e","n","d","s">>],
       [keyword |-> <<"y","i","e","l","d">>,
        topic_name |-> <<"Y","i","e","l","d"," ","A","n","a","l","y","s","i","s">>],
       [keyword |-> <<"m","a","r","k","e","t">>,
        topic_name |-> <<"M","a","r","k","e","t"," ","A","n","a","l","y","s","i","s">>] >>

\* sorted() over the topic names: the positions of financial_keywords in the
\* order Python's string comparison gives their topic names
sorted_topic_positions == << 11, 3, 5, 12, 4, 7, 14, 1, 6, 8, 10, 2, 9, 13 >>

NO_CONVERSATION_HISTORY ==
    <<"N","o"," ","c","o","n","v","e","r","s","a","t","i","o","n"," ","h","i","s","t","o","r","y">>

SUMMARY_HEAD ==
    <<"C","o","n","v","e","r","s","a","t","i","o","n"," ","w","i","t","h"," ">>

SUMMARY_MESSAGES ==
    <<" ","m","e","s","s","a","g","e","s",".">>

SUMMARY_TOPICS_HEAD ==
    <<"M","a","i","n"," ","t","o","p","i","c","s",":"," ">>

SUMMARY_QUESTION_HEAD ==
    <<"L","a","s","t"," ","q","u","e","s","t","i","o","n",":"," ">>

ELLIPSIS ==
    <<".",".",".">>

DigitChars == <<"0","1","2","3","4","5","6","7","8","9">>

\* str(n) of a natural number, as an f-string renders it
RECURSIVE IntToStr(_)
IntToStr(n) ==
    IF n < 10 THEN <<DigitChars[n + 1]>>
    ELSE IntToStr(n \div 10) \o <<DigitChars[(n % 10) + 1]>>

\* the slice s[:n] of a string or a list
Prefix(s, n) == SubSeq(s, 1, IF Len(s) < n THEN Len(s) ELSE n)

\* Optional[ConversationSummary]: None is the empty sequence, a summary is a
\* sequence holding it
NoSummary == << >>

\* ConversationManager.__init__: `max_history or Config.CONVERSATION_MAX_HISTORY`,
\* `summary_length or Config.CONVERSATION_SUMMARY_LENGTH` (0 stands for None)
ConversationManager(max_history, summary_length) ==
    [ max_history |-> IF max_history = 0 THEN CONVERSATION_MAX_HISTORY ELSE max_history,
      summary_length |-> IF summary_length = 0 THEN CONVERSATION_SUMMARY_LENGTH
                         ELSE summary_length ]

\* get_conversation_manager(): the singleton, built from the Config defaults
get_conversation_manager == ConversationManager(0, 0)

\* create_summary: the positions in financial_keywords of the topics some message names
topics(messages) ==
    {p \in 1..Len(financial_keywords) :
        \E i \in 1..Len(messages) :
            Contains(Lower(messages[i].content), financial_keywords[p].keyword)}

\* create_summary: the decisions, the first 100 characters of each user message
\* longer than 20 characters
decisions(messages) ==
    LET Asked(m) == m.role = "user" /\ Len(m.content) > 20
        asked == SelectSeq(messages, Asked)
    IN [i \in 1..Len(asked) |-> Prefix(asked[i].content, 100)]

\* create_summary: the first 150 characters of the last user message, empty for None
recent_user_msg(messages) ==
    LET users == {i \in 1..Len(messages) : messages[i].role = "user"}
    IN IF users = {} THEN << >>
       ELSE Prefix(messages[CHOOSE i \in users : \A j \in users : j <= i].content, 150)

\* ConversationManager.create_summary, without its timestamp. key_topics is
\* list(topics)[:5], five topics at most in the set's iteration order, which the
\* code leaves open: it is kept as the set of topic names (the contents of the
\* model name no more than five topics)
create_summary(self, messages) ==
    IF Len(messages) = 0
    THEN [ summary_text |-> NO_CONVERSATION_HISTORY,
           messages_included |-> 0,
           key_topics |-> {},
           key_decisions |-> << >> ]
    ELSE LET found == topics(messages)
             num_msgs == Len(messages)
             InTopics(p) == p \in found
             sorted_topics == SelectSeq(sorted_topic_positions, InTopics)
             topics_str == Join([i \in 1..Len(Prefix(sorted_topics, 5)) |->
                                    financial_keywords[sorted_topics[i]].topic_name],
                                COMMA_SPACE)
             recent == recent_user_msg(messages)
             summary_parts ==
                 <<SUMMARY_HEAD \o IntToStr(num_msgs) \o SUMMARY_MESSAGES>>
                 \o (IF found # {} THEN <<SUMMARY_TOPICS_HEAD \o topics_str \o <<".">> >>
                     ELSE << >>)
                 \o (IF recent # << >> THEN <<SUMMARY_QUESTION_HEAD \o recent>> ELSE << >>)
             summary_text == Join(summary_parts, <<" ">>)
         IN [ summary_text |-> IF Len(summary_text) > self.summary_length
                               THEN Prefix(summary_text, self.summary_length) \o ELLIPSIS
                               ELSE summary_text,
              messages_included |-> num_msgs,
              key_topics |-> {financial_keywords[p].topic_name : p \in found},
              key_decisions |-> Prefix(decisions(messages), 3) ]

\* trim_history with `<` for `<=`: a history of exactly max_history messages is trimmed
trim_history_lt(self, messages) ==
    IF Len(messages) < self.max_history
    THEN [trimmed |-> messages, summary |-> NoSummary]
    ELSE [ trimmed |-> SubSeq(messages, Len(messages) - self.max_history + 1, Len(messages)),
           summary |-> <<create_summary(self,
                             SubSeq(messages, 1, Len(messages) - self.max_history))>> ]

\* trim_history summarizing the whole history it was given
trim_history_summarizes_all(self, messages) ==
    IF Len(messages) <= self.max_history
    THEN [trimmed |-> messages, summary |-> NoSummary]
    ELSE [ trimmed |-> SubSeq(messages, Len(messages) - self.max_history + 1, Len(messages)),
           summary |-> <<create_summary(self, messages)>> ]

\* trim_history summarizing one message more than it evicts
trim_history_overlap(self, messages) ==
    IF Len(messages) <= self.max_history
    THEN [trimmed |-> messages, summary |-> NoSummary]
    ELSE [ trimmed |-> SubSeq(messages, Len(messages) - self.max_history + 1, Len(messages)),
           summary |-> <<create_summary(self,
                             SubSeq(messages, 1, Len(messages) - self.max_history + 1))>> ]

\* ConversationManager.trim_history, for a max_history of one or more: the pair
\* (trimmed_messages, summary_if_created)
trim_history(self, messages) ==
    IF Len(messages) <= self.max_history
    THEN [trimmed |-> messages, summary |-> NoSummary]
    ELSE [ trimmed |-> SubSeq(messages, Len(messages) - self.max_history + 1, Len(messages)),
           summary |-> <<create_summary(self,
                             SubSeq(messages, 1, Len(messages) - self.max_history))>> ]

\* ------------------------------------------------------------------------
\* src/orchestration/workflow.py: OrchestratorWorkflow, with
\* src/orchestration/agent_executor.py: AgentExecutor.execute
\* ------------------------------------------------------------------------

\* OrchestrationState(user_input=user_input): the fields the stages below write
OrchestrationState(user_input) ==
    [ user_input |-> user_input,
      conversation_history |-> << >>,
      conversation_summary |-> NoSummary,
      detected_intents |-> << >>,
      primary_intent |-> "none",
      selected_agents |-> << >>,
      agent_executions |-> << >>,
      execution_times |-> {},
      agent_outputs |-> << >>,
      citations |-> << >>,
      synthesized_response |-> << >>,
      workflow_state |-> "input",
      error_messages |-> << >> ]

\* OrchestrationState.add_message
add_message(state, role, content) ==
    [state EXCEPT !.conversation_history = Append(@, [role |-> role, content |-> content])]

\* OrchestrationState.add_error
add_error(state, error) ==
    [state EXCEPT !.error_messages = Append(@, error)]

\* OrchestrationState.add_agent_execution
add_agent_execution(state, execution) ==
    [state EXCEPT !.agent_executions = Append(@, execution),
                  !.execution_times = @ \cup {execution.agent_type}]

\* node_input of a workflow whose conversation_manager is `self`
node_input_of(self, state) ==
    LET added == add_message([state EXCEPT !.workflow_state = "input"],
                             "user", state.user_input)
        result == trim_history(self, added.conversation_history)
        n == Len(result.trimmed)
    IN [added EXCEPT
           !.conversation_summary = IF result.summary # NoSummary THEN result.summary ELSE @,
           !.conversation_history = IF Len(@) > n THEN SubSeq(@, Len(@) - n + 1, Len(@))
                                    ELSE @]

\* node_input
node_input(state) == node_input_of(get_conversation_manager, state)

\* node_intent_detection
node_intent_detection(state) ==
    LET intents == detect_intents(Inputs[state.user_input])
    IN [state EXCEPT !.workflow_state = "intent_detection",
                     !.detected_intents = intents,
                     !.primary_intent = get_primary_intent(intents)]

\* node_routing
node_routing(state) ==
    [state EXCEPT !.workflow_state = "routing",
                  !.selected_agents = make_routing_decision(state.detected_intents)]

\* zip(agents, results) if gather handed the results back last coroutine first
ZipResults_reversed(agents, results) ==
    [a \in {agents[i] : i \in 1..Len(agents)} |->
        results[Len(agents) + 1 - (CHOOSE i \in 1..Len(agents) :
                                      /\ agents[i] = a
                                      /\ \A j \in (i + 1)..Len(agents) : agents[j] # a)]]

\* execute_agents_parallel after gather: for agent, result in zip(agents, results)
ZipResults(agents, results) ==
    [a \in {agents[i] : i \in 1..Len(agents)} |->
        results[CHOOSE i \in 1..Len(agents) :
                   /\ agents[i] = a
                   /\ \A j \in (i + 1)..Len(agents) : agents[j] # a]]

\* AgentExecutor.execute: "Process results", in the order of the result dict
RECURSIVE ProcessResults(_, _, _)
ProcessResults(state, agents, results) ==
    IF Len(agents) = 0 THEN state
    ELSE LET result == results[Head(agents)]
             execution_record == [agent_type |-> Head(agents),
                                  status |-> result.status,
                                  output |-> result.output,
                                  error |-> result.error]
             stored == [state EXCEPT !.agent_outputs = (Head(agents) :> result) @@ @]
         IN ProcessResults(add_agent_execution(stored, execution_record),
                           Tail(agents), results)

\* the keys of the result dict in insertion order: each agent once, at its first position
RECURSIVE KeysInOrder(_, _)
KeysInOrder(agents, seen) ==
    IF Len(agents) = 0 THEN << >>
    ELSE IF Head(agents) \in seen THEN KeysInOrder(Tail(agents), seen)
    ELSE <<Head(agents)>> \o KeysInOrder(Tail(agents), seen \cup {Head(agents)})

\* synthesize without its last assignment to workflow_state
synthesize_not_completed(state) ==
    [state EXCEPT !.synthesized_response = SynthesizedResponse(state)]

\* ResponseSynthesizer.synthesize from its first assignment to its last
synthesize(state) ==
    [state EXCEPT !.synthesized_response = SynthesizedResponse(state),
                  !.workflow_state = "complete"]

\* execute_workflow: the except branch, for an exception whose str() is message
WorkflowError(state, message) ==
    [add_error(state, WORKFLOW_ERROR_HEAD \o message) EXCEPT
        !.workflow_state = "error"]

NoTasks == << >>

\* execute: the context holds the extracted data only, and no call was made yet
NoContext == [current |-> {}, passed |-> << >>]

\* an agent whose execute() has not finished
NoOutcome == [kind |-> "none", answer |-> 0, error |-> "none"]

\* execute_workflow is called with a user query
OW_Init ==
    /\ wf_pc = "node_input"
    /\ wf \in {OrchestrationState(u) : u \in InputIds}
    /\ wf_tasks = NoTasks
    /\ wf_outcomes = << >>
    /\ wf_clock = 0
    /\ wf_invoked = << >>
    /\ wf_context = NoContext

\* node_input
OW_NodeInput ==
    /\ wf_pc = "node_input"
    /\ wf' = node_input(wf)
    /\ wf_pc' = "node_intent_detection"
    /\ UNCHANGED <<wf_tasks, wf_outcomes, wf_clock, wf_invoked>>
    /\ UNCHANGED wf_context
    /\ UNCHANGED <<lg_vars, rl_vars, rt_vars, cm_vars, id_vars, pf_vars>>

\* node_intent_detection
OW_NodeIntentDetection ==
    /\ wf_pc = "node_intent_detection"
    /\ wf' = node_intent_detection(wf)
    /\ wf_pc' = "node_routing"
    /\ UNCHANGED <<wf_tasks, wf_outcomes, wf_clock, wf_invoked>>
    /\ UNCHANGED wf_context
    /\ UNCHANGED <<lg_vars, rl_vars, rt_vars, cm_vars, id_vars, pf_vars>>

\* node_routing
OW_NodeRouting ==
    /\ wf_pc = "node_routing"
    /\ wf' = node_routing(wf)
    /\ wf_pc' = "node_execution"
    /\ UNCHANGED <<wf_tasks, wf_outcomes, wf_clock, wf_invoked>>
    /\ UNCHANGED wf_context
    /\ UNCHANGED <<lg_vars, rl_vars, rt_vars, cm_vars, id_vars, pf_vars>>

\* node_execution -> AgentExecutor.execute(state, parallel=len(selected_agents) > 1) up
\* to its first await: with no agent selected it returns at once; in parallel mode
\* gather starts every execute_agent coroutine, each running to its agent.execute();
\* otherwise the sequential loop starts
OW_ExecuteStart ==
    /\ wf_pc = "node_execution"
    /\ IF Len(wf.selected_agents) = 0
       THEN /\ wf' = add_error(wf, NO_AGENTS_SELECTED)
            /\ wf_pc' = "node_synthesis"
            /\ UNCHANGED <<wf_tasks, wf_outcomes, wf_invoked, wf_context>>
       ELSE /\ wf' = [wf EXCEPT !.workflow_state = "execution"]
            /\ wf_outcomes' = [i \in 1..Len(wf.selected_agents) |-> NoOutcome]
            /\ IF Len(wf.selected_agents) > 1
               THEN /\ wf_tasks' = [i \in 1..Len(wf.selected_agents) |->
                                       PendingTask(wf.selected_agents[i])]
                    /\ wf_invoked' = wf_invoked \o wf.selected_agents
                    /\ wf_context' = [NoContext EXCEPT
                                         !.passed = [i \in 1..Len(wf.selected_agents) |-> {}]]
                    /\ wf_pc' = "gather"
               ELSE /\ wf_tasks' = NoTasks
                    /\ wf_invoked' = wf_invoked
                    /\ wf_context' = NoContext
                    /\ wf_pc' = "sequential"
    /\ wf_clock' = 0
    /\ UNCHANGED <<lg_vars, rl_vars, rt_vars, cm_vars, id_vars, pf_vars>>

\* execute_agents_sequential: the loop calls execute_agent for the next agent
OW_SequentialCall ==
    /\ wf_pc = "sequential"
    /\ Len(wf_tasks) < Len(wf.selected_agents)
    /\ wf_tasks' = Append(wf_tasks, PendingTask(wf.selected_agents[Len(wf_tasks) + 1]))
    /\ wf_invoked' = Append(wf_invoked, wf.selected_agents[Len(wf_tasks) + 1])
    /\ wf_context' = [wf_context EXCEPT !.passed = Append(@, wf_context.current)]
    /\ wf_pc' = "sequential_await"
    /\ UNCHANGED <<wf, wf_outcomes, wf_clock>>
    /\ UNCHANGED <<lg_vars, rl_vars, rt_vars, cm_vars, id_vars, pf_vars>>

\* an agent's execute() returns or raises and its execute_agent coroutine finishes
OW_AgentFinishes ==
    /\ wf_pc \in {"gather", "sequential_await"}
    /\ \E i \in 1..Len(wf_tasks), outcome \in AgentOutcomes :
          /\ wf_tasks[i].status = "pending"
          /\ wf_tasks' = [wf_tasks EXCEPT ![i] = execute_agent(wf.selected_agents[i], outcome)]
          /\ wf_outcomes' = [wf_outcomes EXCEPT ![i] = outcome]
    /\ UNCHANGED <<wf_pc, wf, wf_clock, wf_invoked>>
    /\ UNCHANGED wf_context
    /\ UNCHANGED <<lg_vars, rl_vars, rt_vars, cm_vars, id_vars, pf_vars>>

\* time passes while an agent's execute() has not returned
OW_Tick ==
    /\ wf_pc \in {"gather", "sequential_await"}
    /\ \E i \in 1..Len(wf_tasks) : wf_tasks[i].status = "pending"
    /\ wf_clock < MaxClock
    /\ wf_clock' = wf_clock + 1
    /\ UNCHANGED <<wf_pc, wf, wf_tasks, wf_outcomes, wf_invoked>>
    /\ UNCHANGED wf_context
    /\ UNCHANGED <<lg_vars, rl_vars, rt_vars, cm_vars, id_vars, pf_vars>>

\* isinstance(agent_output, dict) for the "output" of a success result: every agent's
\* execute() returns an AgentOutput dataclass instance, which is not a dict
IsDictOutput(agent_output) == FALSE

\* execute_agents_sequential (shared_outputs=True): the awaited execute_agent returned;
\* a success result whose output is a dict is added to current_context
OW_SequentialNext ==
    /\ wf_pc = "sequential_await"
    /\ wf_tasks[Len(wf_tasks)].status # "pending"
    /\ IF wf_tasks[Len(wf_tasks)].status = "raised"
       THEN /\ wf' = WorkflowError(wf, wf_tasks[Len(wf_tasks)].error)
            /\ wf_pc' = "done"
            /\ UNCHANGED wf_context
       ELSE /\ wf' = wf
            /\ wf_context' =
                  IF /\ wf_tasks[Len(wf_tasks)].status = "success"
                     /\ IsDictOutput(wf_tasks[Len(wf_tasks)].output)
                  THEN [wf_context EXCEPT !.current = @ \cup {wf_tasks[Len(wf_tasks)].agent}]
                  ELSE wf_context
            /\ wf_pc' = IF Len(wf_tasks) < Len(wf.selected_agents)
                        THEN "sequential" ELSE "process_results"
    /\ UNCHANGED <<wf_tasks, wf_outcomes, wf_clock, wf_invoked>>
    /\ UNCHANGED <<lg_vars, rl_vars, rt_vars, cm_vars, id_vars, pf_vars>>

\* execute_agents_parallel: asyncio.gather(*tasks, return_exceptions=False) returns
\* when every coroutine has returned, and raises as soon as one of them raised
OW_GatherReturns ==
    /\ wf_pc = "gather"
    /\ IF \E i \in 1..Len(wf_tasks) : wf_tasks[i].status = "raised"
       THEN /\ wf' = WorkflowError(wf, wf_tasks[CHOOSE i \in 1..Len(wf_tasks) :
                                                   wf_tasks[i].status = "raised"].error)
            /\ wf_pc' = "done"
       ELSE /\ \A i \in 1..Len(wf_tasks) : wf_tasks[i].status # "pending"
            /\ wf' = wf
            /\ wf_pc' = "process_results"
    /\ UNCHANGED <<wf_tasks, wf_outcomes, wf_clock, wf_invoked>>
    /\ UNCHANGED wf_context
    /\ UNCHANGED <<lg_vars, rl_vars, rt_vars, cm_vars, id_vars, pf_vars>>

\* AgentExecutor.execute: "Process results", then node_execution returns
OW_ProcessResults ==
    /\ wf_pc = "process_results"
    /\ wf' = ProcessResults(wf, KeysInOrder(wf.selected_agents, {}),
                            ZipResults(wf.selected_agents, wf_tasks))
    /\ wf_pc' = "node_synthesis"
    /\ UNCHANGED <<wf_tasks, wf_outcomes, wf_clock, wf_invoked>>
    /\ UNCHANGED wf_context
    /\ UNCHANGED <<lg_vars, rl_vars, rt_vars, cm_vars, id_vars, pf_vars>>

\* node_synthesis -> ResponseSynthesizer.synthesize: its first assignment
OW_SynthesizeStart ==
    /\ wf_pc = "node_synthesis"
    /\ wf' = [wf EXCEPT !.workflow_state = "synthesis"]
    /\ wf_pc' = "synthesize"
    /\ UNCHANGED <<wf_tasks, wf_outcomes, wf_clock, wf_invoked>>
    /\ UNCHANGED wf_context
    /\ UNCHANGED <<lg_vars, rl_vars, rt_vars, cm_vars, id_vars, pf_vars>>

\* the rest of synthesize, then node_synthesis adds the assistant message and
\* execute_workflow returns the state
OW_SynthesizeEnd ==
    /\ wf_pc = "synthesize"
    /\ wf' = add_message(synthesize(wf), "assistant", synthesize(wf).synthesized_response)
    /\ wf_pc' = "done"
    /\ UNCHANGED <<wf_tasks, wf_outcomes, wf_clock, wf_invoked>>
    /\ UNCHANGED wf_context
    /\ UNCHANGED <<lg_vars, rl_vars, rt_vars, cm_vars, id_vars, pf_vars>>

\* a stage raises inside the try block of execute_workflow: the except branch records
\* the error and returns the state
OW_StageRaises ==
    /\ wf_pc \in {"node_input", "node_intent_detection", "node_routing",
                  "node_execution", "node_synthesis", "synthesize"}
    /\ \E e \in ErrorIds : wf' = WorkflowError(wf, ErrorMessages[e])
    /\ wf_pc' = "done"
    /\ UNCHANGED <<wf_tasks, wf_outcomes, wf_clock, wf_invoked>>
    /\ UNCHANGED wf_context
    /\ UNCHANGED <<lg_vars, rl_vars, rt_vars, cm_vars, id_vars, pf_vars>>

\* AgentExecutor.execute(state, parallel=False) is called on a state that went
\* through routing
SQ_Init ==
    /\ wf_pc = "execute_sequential"
    /\ wf \in {node_routing(node_intent_detection(node_input(OrchestrationState(u)))) :
                  u \in InputIds}
    /\ wf_tasks = NoTasks
    /\ wf_outcomes = << >>
    /\ wf_clock = 0
    /\ wf_invoked = << >>
    /\ wf_context = NoContext

\* AgentExecutor.execute(state, parallel=False) up to the sequential loop
OW_ExecuteSequential ==
    /\ wf_pc = "execute_sequential"
    /\ IF Len(wf.selected_agents) = 0
       THEN /\ wf' = add_error(wf, NO_AGENTS_SELECTED)
            /\ wf_pc' = "node_synthesis"
            /\ UNCHANGED wf_outcomes
       ELSE /\ wf' = [wf EXCEPT !.workflow_state = "execution"]
            /\ wf_outcomes' = [i \in 1..Len(wf.selected_agents) |-> NoOutcome]
            /\ wf_pc' = "sequential"
    /\ UNCHANGED <<wf_tasks, wf_clock, wf_invoked, wf_context>>
    /\ UNCHANGED <<lg_vars, rl_vars, rt_vars, cm_vars, id_vars, pf_vars>>

SQ_Next ==
    \/ OW_ExecuteSequential
    \/ OW_SequentialCall
    \/ OW_AgentFinishes
    \/ OW_Tick
    \/ OW_SequentialNext
    \/ OW_ProcessResults

OW_Next ==
    \/ OW_NodeInput
    \/ OW_NodeIntentDetection
    \/ OW_NodeRouting
    \/ OW_ExecuteStart
    \/ OW_SequentialCall
    \/ OW_AgentFinishes
    \/ OW_Tick
    \/ OW_SequentialNext
    \/ OW_GatherReturns
    \/ OW_ProcessResults
    \/ OW_SynthesizeStart
    \/ OW_SynthesizeEnd
    \/ OW_StageRaises

\* ------------------------------------------------------------------------
\* src/core/guardrails.py: a RateLimiter instance in use
\* ------------------------------------------------------------------------

\* the requests in flight
InFlightIds == 1..MaxInFlight

\* no is_allowed call has begun and not returned
NoRequest == {}

\* a request that is not inside is_allowed
NotCalling ==
    [pc |-> "idle", user_id |-> "", now |-> 0, requests |-> << >>]

\* RateLimiter(): no user has made a request
RL_Init ==
    /\ rl_user_requests = << >>
    /\ rl_now = 0
    /\ rl_calls = [u \in Users |-> << >>]
    /\ rl_inflight = [r \in InFlightIds |-> NotCalling]
    /\ rl_running = NoRequest

\* the number of is_allowed calls made so far
TotalCalls ==
    Cardinality({<<u, i>> \in Users \X (1..MaxCalls) : i <= Len(rl_calls[u])})

\* a call of is_allowed(user_id)
RL_IsAllowed ==
    /\ \E user_id \in Users :
          LET decision == is_allowed(rl_user_requests, user_id, rl_now)
          IN /\ TotalCalls < MaxCalls
             /\ rl_user_requests' = decision.user_requests
             /\ rl_calls' = [rl_calls EXCEPT ![user_id] =
                                Append(@, [at |-> rl_now, allowed |-> decision.allowed,
                                           error |-> decision.error])]
    /\ UNCHANGED <<rl_now, rl_inflight, rl_running>>
    /\ UNCHANGED <<lg_vars, wf_vars, rt_vars, cm_vars, id_vars, pf_vars>>

\* the wall clock advances
RL_Advance ==
    /\ rl_now < MaxNow
    /\ rl_now' = rl_now + 1
    /\ UNCHANGED <<rl_user_requests, rl_calls, rl_inflight, rl_running>>
    /\ UNCHANGED <<lg_vars, wf_vars, rt_vars, cm_vars, id_vars, pf_vars>>

RL_Next ==
    \/ RL_IsAllowed
    \/ RL_Advance

\* the wall clock advances from the limiter's first moment to the last tick of the day
\* that began there, and from then on tick by tick until the minute begun at that
\* tick is over
RD_Advance ==
    /\ rl_now < DayTicks - 1 + MinuteTicks - 1
    /\ rl_now' = IF rl_now = 0 THEN DayTicks - 1 ELSE rl_now + 1
    /\ UNCHANGED <<rl_user_requests, rl_calls, rl_inflight, rl_running>>
    /\ UNCHANGED <<lg_vars, wf_vars, rt_vars, cm_vars, id_vars, pf_vars>>

RD_Next ==
    \/ RL_IsAllowed
    \/ RD_Advance

\* ------------------------------------------------------------------------
\* src/core/guardrails.py: a RateLimiter that has served a user for some hours
\* ------------------------------------------------------------------------

\* a busy hour of a user: QUERIES_PER_MINUTE calls in each of as many minutes as it
\* takes to reach QUERIES_PER_HOUR, then no call until those are more than an hour old
BusyTicks == (QUERIES_PER_HOUR \div QUERIES_PER_MINUTE) * MinuteTicks

BlockTicks == HourTicks + BusyTicks

\* the time of the i-th call of a day of busy hours
CallTime(i) ==
    BlockTicks * ((i - 1) \div QUERIES_PER_HOUR)
        + MinuteTicks * (((i - 1) % QUERIES_PER_HOUR) \div QUERIES_PER_MINUTE)

\* the first moment after the busy hours that bring a user to QUERIES_PER_DAY calls
LoadedNow == CallTime(QUERIES_PER_DAY) + MinuteTicks

\* user_requests after the calls first..last of the busy hours are made on it in their
\* order, each by user_id through is_allowed at its time (the calls before the middle
\* one, the middle one, the calls after it)
RECURSIVE AfterBusyCalls(_, _, _, _)
AfterBusyCalls(user_requests, user_id, first, last) ==
    IF last < first THEN user_requests
    ELSE LET mid == (first + last) \div 2
             before == AfterBusyCalls(user_requests, user_id, first, mid - 1)
             after == is_allowed(before, user_id, CallTime(mid)).user_requests
         IN IF user_id \in DOMAIN after
            THEN AfterBusyCalls(after, user_id, mid + 1, last)
            ELSE after

Loaded(user_id, first, last) ==
    AfterBusyCalls(<< >>, user_id, first, last)

\* the limiter at LoadedNow: the requester made the last n calls of the busy hours
\* (none, one hour's but one, the day's but one), the other user none
RF_Init ==
    /\ rl_user_requests \in
           {Loaded(Requester, QUERIES_PER_DAY - n + 1, QUERIES_PER_DAY) :
               n \in {0, QUERIES_PER_HOUR - 1, QUERIES_PER_DAY - 1}}
    /\ rl_now = LoadedNow
    /\ rl_calls = [u \in Users |-> << >>]
    /\ rl_inflight = [r \in InFlightIds |-> NotCalling]
    /\ rl_running = NoRequest

\* the wall clock advances to the moment the last busy hour is more than an hour old,
\* then to the moment the first busy hour is a day old
RF_Advance ==
    /\ rl_now < CallTime(QUERIES_PER_HOUR) + DayTicks
    /\ rl_now' = IF rl_now = LoadedNow THEN CallTime(QUERIES_PER_DAY) + HourTicks
                 ELSE CallTime(QUERIES_PER_HOUR) + DayTicks
    /\ UNCHANGED <<rl_user_requests, rl_calls, rl_inflight, rl_running>>
    /\ UNCHANGED <<lg_vars, wf_vars, rt_vars, cm_vars, id_vars, pf_vars>>

RF_Next ==
    \/ RL_IsAllowed
    \/ RF_Advance

\* ------------------------------------------------------------------------
\* src/core/guardrails.py: the RateLimiter of get_rate_limiter() called by several
\* requests in flight, each a task of the process's event loop
\* ------------------------------------------------------------------------

\* requests whose calls may run any step at any moment
MayRun_preemptive(running, r) ==
    TRUE

\* is_allowed is a plain function with no await in it: the event loop gives control to
\* another request only where the running one awaits, so a call that has begun runs
\* to its return before a call of any other request takes a step
MayRun(running, r) ==
    running = NoRequest \/ running = {r}

\* the is_allowed calls begun so far
TotalBegun ==
    TotalCalls + Cardinality({r \in InFlightIds : rl_inflight[r].pc # "idle"})

\* a request of the user reaches its call of is_allowed: its task is ready to run
RC_Arrive ==
    /\ TotalBegun < MaxCalls
    /\ \E r \in InFlightIds :
          /\ rl_inflight[r].pc = "idle"
          /\ rl_inflight' = [rl_inflight EXCEPT ![r].pc = "ready", ![r].user_id = Requester]
    /\ UNCHANGED <<rl_now, rl_calls, rl_user_requests, rl_running>>
    /\ UNCHANGED <<lg_vars, wf_vars, rt_vars, cm_vars, id_vars, pf_vars>>

\* is_allowed up to `requests = self.user_requests[user_id]`: now is read, the user is
\* given an empty list if unknown, and the user's list is read
RC_Begin ==
    /\ \E r \in InFlightIds :
          /\ rl_inflight[r].pc = "ready"
          /\ MayRun(rl_running, r)
          /\ LET user_id == rl_inflight[r].user_id
                 known == IF user_id \in DOMAIN rl_user_requests
                          THEN rl_user_requests
                          ELSE (user_id :> << >>) @@ rl_user_requests
             IN /\ rl_user_requests' = known
                /\ rl_inflight' = [rl_inflight EXCEPT ![r] =
                                      [pc |-> "clean", user_id |-> user_id, now |-> rl_now,
                                       requests |-> known[user_id]]]
          /\ rl_running' = {r}
    /\ UNCHANGED <<rl_now, rl_calls>>
    /\ UNCHANGED <<lg_vars, wf_vars, rt_vars, cm_vars, id_vars, pf_vars>>

\* "Clean up old requests": the list read is filtered and stored
RC_Clean ==
    /\ \E r \in InFlightIds :
          /\ rl_inflight[r].pc = "clean"
          /\ MayRun(rl_running, r)
          /\ LET call == rl_inflight[r]
                 requests == RequestsAfter(call.requests, call.now - DayTicks)
             IN /\ rl_user_requests' = [rl_user_requests EXCEPT ![call.user_id] = requests]
                /\ rl_inflight' = [rl_inflight EXCEPT ![r].pc = "check",
                                                      ![r].requests = requests]
    /\ UNCHANGED <<rl_now, rl_calls, rl_running>>
    /\ UNCHANGED <<lg_vars, wf_vars, rt_vars, cm_vars, id_vars, pf_vars>>

\* the counts and "Check limits": a call over a limit returns here
RC_Check ==
    /\ \E r \in InFlightIds :
          /\ rl_inflight[r].pc = "check"
          /\ MayRun(rl_running, r)
          /\ LET call == rl_inflight[r]
                 minute_count == Len(RequestsAfter(call.requests, call.now - MinuteTicks))
                 hour_count == Len(RequestsAfter(call.requests, call.now - HourTicks))
                 day_count == Len(call.requests)
                 error == IF minute_count >= QUERIES_PER_MINUTE THEN "queries/minute"
                          ELSE IF hour_count >= QUERIES_PER_HOUR THEN "queries/hour"
                          ELSE IF day_count >= QUERIES_PER_DAY THEN "queries/day"
                          ELSE "none"
             IN IF error # "none"
                THEN /\ rl_calls' = [rl_calls EXCEPT ![call.user_id] =
                                        Append(@, [at |-> call.now, allowed |-> FALSE,
                                                   error |-> error])]
                     /\ rl_inflight' = [rl_inflight EXCEPT ![r] = NotCalling]
                     /\ rl_running' = NoRequest
                ELSE /\ rl_inflight' = [rl_inflight EXCEPT ![r].pc = "record"]
                     /\ UNCHANGED <<rl_calls, rl_running>>
    /\ UNCHANGED <<rl_now, rl_user_requests>>
    /\ UNCHANGED <<lg_vars, wf_vars, rt_vars, cm_vars, id_vars, pf_vars>>

\* "Record this request": the filtered list with now appended is stored and the call
\* returns (True, None)
RC_Record ==
    /\ \E r \in InFlightIds :
          /\ rl_inflight[r].pc = "record"
          /\ MayRun(rl_running, r)
          /\ LET call == rl_inflight[r]
             IN /\ rl_user_requests' = [rl_user_requests EXCEPT ![call.user_id] =
                                            Append(call.requests, call.now)]
                /\ rl_calls' = [rl_calls EXCEPT ![call.user_id] =
                                   Append(@, [at |-> call.now, allowed |-> TRUE,
                                              error |-> "none"])]
                /\ rl_inflight' = [rl_inflight EXCEPT ![r] = NotCalling]
          /\ rl_running' = NoRequest
    /\ UNCHANGED rl_now
    /\ UNCHANGED <<lg_vars, wf_vars, rt_vars, cm_vars, id_vars, pf_vars>>

RC_Next ==
    \/ RC_Arrive
    \/ RC_Begin
    \/ RC_Clean
    \/ RC_Check
    \/ RC_Record
    \/ RL_Advance

\* ------------------------------------------------------------------------
\* src/orchestration/intent_detector.py: make_routing_decision on any intent list
\* ------------------------------------------------------------------------

\* the lists of at most MaxIntents intents
IntentLists ==
    UNION {[1..n -> Intent] : n \in 0..MaxIntents}

\* a state whose detected_intents is any such list
RT_Init ==
    /\ rt_pc = "call"
    /\ rt_intents \in IntentLists
    /\ rt_agents = << >>

\* make_routing_decision(state)
RT_MakeRoutingDecision ==
    /\ rt_pc = "call"
    /\ rt_agents' = make_routing_decision(rt_intents)
    /\ rt_pc' = "routed"
    /\ UNCHANGED rt_intents
    /\ UNCHANGED <<lg_vars, wf_vars, rl_vars, cm_vars, id_vars, pf_vars>>

RT_Next ==
    \/ RT_MakeRoutingDecision

\* ------------------------------------------------------------------------
\* src/orchestration/workflow.py, src/core/conversation_manager.py: a conversation
\* whose history and summary the caller carries from one turn to the next
\* ------------------------------------------------------------------------

\* message contents of a conversation: a question, a short acknowledgement, a
\* question longer than 150 characters, and an assistant's reply
Contents ==
    << <<"W","h","a","t"," ","i","s"," ","p","o","r","t","f","o","l","i","o"," ","d","i","v","e","r","s","i","f","i","c","a","t","i","o","n","?">>,
       <<"o","k"," ","t","h","a","n","k","s">>,
       <<"I"," ","p","l","a","n"," ","t","o"," ","s","t","o","p"," ","w","o","r","k","i","n","g"," ","a","t"," ","s","i","x","t","y"," ","a","n","d"," ","w","a","n","t"," ","t","o"," ","k","n","o","w"," ","h","o","w"," ","w","i","t","h","d","r","a","w","a","l","s"," ","f","r","o","m"," ","m","y"," ","r","e","t","i","r","e","m","e","n","t"," ","a","c","c","o","u","n","t","s"," ","a","r","e"," ","t","a","x","e","d",","," ","w","h","i","c","h"," ","a","c","c","o","u","n","t","s"," ","t","o"," ","d","r","a","w"," ","d","o","w","n"," ","f","i","r","s","t",","," ","a","n","d"," ","h","o","w"," ","t","o"," ","l","i","m","i","t"," ","t","h","e"," ","t","a","x"," ","I"," ","o","w","e"," ","o","v","e","r","a","l","l",".">>,
       <<"B","o","n","d","s"," ","a","d","d"," ","s","t","a","b","i","l","i","t","y",".">> >>

\* the messages of a conversation
Messages ==
    { [role |-> "user", content |-> Contents[1]],
      [role |-> "user", content |-> Contents[2]],
      [role |-> "user", content |-> Contents[3]],
      [role |-> "assistant", content |-> Contents[4]] }

\* what a user sends in a turn
UserContents == {m.content : m \in {x \in Messages : x.role = "user"}}

\* what the synthesis stage answers
AssistantContents == {m.content : m \in {x \in Messages : x.role = "assistant"}}

\* the histories a conversation can start from
PriorHistories ==
    UNION {[1..n -> Messages] : n \in 0..MaxPrior}

\* the managers: ConversationManager() and ConversationManager(max_history=n)
Managers ==
    {ConversationManager(n, 0) : n \in 0..MaxHistory}

\* the fields of OrchestrationState a conversation carries
ConversationState(history) ==
    [ user_input |-> << >>,
      conversation_history |-> history,
      conversation_summary |-> NoSummary,
      synthesized_response |-> << >>,
      workflow_state |-> "input" ]

NoCall ==
    [by |-> "none", messages |-> << >>, trimmed |-> << >>, summary |-> NoSummary,
     tail_of_trim |-> FALSE]

CM_Init ==
    /\ cm_pc = "turn"
    /\ cm_manager \in Managers
    /\ cm_state \in {ConversationState(h) : h \in PriorHistories}
    /\ cm_call = NoCall
    /\ cm_evicted = 0
    /\ cm_turns = 0

\* node_input of the next turn: the user's message is added and the history trimmed
CM_NodeInput ==
    /\ cm_pc = "turn"
    /\ cm_turns < MaxTurns
    /\ \E content \in UserContents :
          LET carried == [cm_state EXCEPT !.user_input = content]
              messages == add_message(carried, "user", content).conversation_history
              result == trim_history(cm_manager, messages)
              after == node_input_of(cm_manager, carried)
          IN /\ cm_state' = after
             /\ cm_call' = [by |-> "node_input", messages |-> messages,
                            trimmed |-> result.trimmed, summary |-> result.summary,
                            tail_of_trim |-> FALSE]
             /\ cm_evicted' = cm_evicted + Len(messages) - Len(after.conversation_history)
    /\ cm_pc' = "synthesis"
    /\ cm_turns' = cm_turns + 1
    /\ UNCHANGED cm_manager
    /\ UNCHANGED <<lg_vars, wf_vars, rl_vars, rt_vars, id_vars, pf_vars>>

\* node_synthesis of the turn: the assistant's message is added
CM_NodeSynthesis ==
    /\ cm_pc = "synthesis"
    /\ \E content \in AssistantContents :
          cm_state' = add_message([cm_state EXCEPT !.synthesized_response = content,
                                                   !.workflow_state = "complete"],
                                  "assistant", content)
    /\ cm_pc' = "turn"
    /\ UNCHANGED <<cm_manager, cm_call, cm_evicted, cm_turns>>
    /\ UNCHANGED <<lg_vars, wf_vars, rl_vars, rt_vars, id_vars, pf_vars>>

\* trim_history called again, on the list the last call returned
CM_TrimTail ==
    /\ cm_call.by = "node_input"
    /\ LET result == trim_history(cm_manager, cm_call.trimmed)
       IN cm_call' = [by |-> "tail", messages |-> cm_call.trimmed,
                      trimmed |-> result.trimmed, summary |-> result.summary,
                      tail_of_trim |-> cm_call.summary # NoSummary]
    /\ UNCHANGED <<cm_pc, cm_manager, cm_state, cm_evicted, cm_turns>>
    /\ UNCHANGED <<lg_vars, wf_vars, rl_vars, rt_vars, id_vars, pf_vars>>

CM_Next ==
    \/ CM_NodeInput
    \/ CM_NodeSynthesis
    \/ CM_TrimTail

\* ------------------------------------------------------------------------
\* src/orchestration/workflow.py, intent_detector.py: node_intent_detection on any
\* query made of a few phrases
\* ------------------------------------------------------------------------

\* the phrases a query is made of
Vocabulary ==
    << <<"h","e","l","l","o">>,
       <<"T","a","x"," ","s","t","r","a","t","e","g","y"," ","f","o","r"," ","A","A","P","L">>,
       <<"g","o","a","l"," ","t","o"," ","s","a","v","e">>,
       <<"$","5",",","0","0","0"," ","i","n"," ","5"," ","y","e","a","r","s">>,
       <<"5"," ","y","e","a","r","s">>,
       <<"t","i","c","k","e","r">>,
       <<"A","A","P","L">> >>

\* the queries: up to MaxWords phrases with a space between them
Queries ==
    {Join([k \in 1..Len(ws) |-> Vocabulary[ws[k]]], <<" ">>) :
        ws \in UNION {[1..n -> 1..Len(Vocabulary)] : n \in 0..MaxWords}}

NotDetected ==
    [ detected_intents |-> << >>, primary_intent |-> "none", confidence_score |-> 0,
      extracted_tickers |-> {}, extracted_amounts |-> << >>, extracted_timeframe |-> << >> ]

ID_Init ==
    /\ id_pc = "detect"
    /\ id_input \in Queries
    /\ id_state = NotDetected

\* node_intent_detection: the intents, the confidence score and the extracted data
ID_NodeIntentDetection ==
    /\ id_pc = "detect"
    /\ LET intents == detect_intents(id_input)
       IN id_state' = [ detected_intents |-> intents,
                        primary_intent |-> get_primary_intent(intents),
                        confidence_score |-> get_confidence_score(intents, id_input),
                        extracted_tickers |-> extract_tickers(id_input),
                        extracted_amounts |-> extract_dollar_amounts(id_input),
                        extracted_timeframe |-> extract_timeframe(id_input) ]
    /\ id_pc' = "detected"
    /\ UNCHANGED id_input
    /\ UNCHANGED <<lg_vars, wf_vars, rl_vars, rt_vars, cm_vars, pf_vars>>

ID_Next ==
    \/ ID_NodeIntentDetection

\* ------------------------------------------------------------------------
\* src/core/guardrails.py: one call of a function of the guardrails on any arguments
\* ------------------------------------------------------------------------

\* the texts a response is made of before the disclaimer is added
Responses == {<< >>} \cup {Answers[i] : i \in 1..Len(Answers)}

\* add_disclaimers(response, intent_types): the callers pass state["detected_intents"]
AddDisclaimersCalls ==
    [fn : {"add_disclaimers"}, response : Responses, intent_types : IntentLists,
     result : {<< >>}]

\* the pieces a query handed to validate_query is made of: a question, two letters,
\* a statement of SQL, a character outside the allowed ones, runs of allowed
\* punctuation with and without a comment marker, and a run of letters one longer
\* than the longest query
QueryPieces ==
    << <<"W","h","a","t"," ","i","s"," ","a"," ","b","o","n","d","?">>,
       <<"h","i">>,
       <<"D","r","o","p"," ","i","t">>,
       <<";">>,
       <<"$","$","-","-","!","!","!","!">>,
       <<"?","?","?","!","!","!","(",")">>,
       [i \in 1..(MAX_QUERY_LENGTH + 1) |-> "a"] >>

ValidatedQueries ==
    {Join([k \in 1..Len(ps) |-> QueryPieces[ps[k]]], << >>) :
        ps \in UNION {[1..n -> 1..Len(QueryPieces)] : n \in 0..MaxPieces}}

\* validate_query(user_input)
ValidateQueryCalls ==
    [fn : {"validate_query"}, user_input : ValidatedQueries, result : {<< >>}]

\* a message that names six topics
SixTopics ==
    [role |-> "user",
     content |-> <<"S","t","o","c","k","s",","," ","b","o","n","d","s",","," ","E","T","F","s",","," ","d","i","v","i","d","e","n","d","s",","," ","y","i","e","l","d"," ","o","r"," ","t","a","x","?">>]

\* the lists of messages handed to create_summary
SummarizedLists ==
    UNION {[1..n -> {SixTopics, [role |-> "user", content |-> Contents[2]],
                     [role |-> "assistant", content |-> Contents[4]]}] : n \in 0..MaxPrior}

\* create_summary(messages)
CreateSummaryCalls ==
    [fn : {"create_summary"}, messages : SummarizedLists, result : {<< >>}]

\* list(topics)[:5]: the first five labels of the set in its iteration order, which
\* follows the hashes of the strings and differs from one process to the next; each
\* list of five (or fewer, if the set is smaller) distinct labels can come out
list_topics(topic_names) ==
    LET n == IF Cardinality(topic_names) < 5 THEN Cardinality(topic_names) ELSE 5
    IN {l \in [1..n -> topic_names] : \A i, j \in 1..n : i # j => l[i] # l[j]}

PF_Init ==
    /\ pf_pc = "call"
    /\ pf_call \in AddDisclaimersCalls \cup ValidateQueryCalls

KT_Init ==
    /\ pf_pc = "call"
    /\ pf_call \in CreateSummaryCalls

\* DisclaimerManager().add_disclaimers(response_text, detected_intents)
PF_AddDisclaimers ==
    /\ pf_pc = "call"
    /\ pf_call.fn = "add_disclaimers"
    /\ pf_call' = [pf_call EXCEPT !.result = add_disclaimers(pf_call.response,
                                                             pf_call.intent_types)]
    /\ pf_pc' = "returned"
    /\ UNCHANGED <<lg_vars, wf_vars, rl_vars, rt_vars, cm_vars, id_vars>>

\* InputValidator().validate_query(user_input)
PF_ValidateQuery ==
    /\ pf_pc = "call"
    /\ pf_call.fn = "validate_query"
    /\ pf_call' = [pf_call EXCEPT !.result = validate_query(pf_call.user_input)]
    /\ pf_pc' = "returned"
    /\ UNCHANGED <<lg_vars, wf_vars, rl_vars, rt_vars, cm_vars, id_vars>>

\* get_conversation_manager().create_summary(messages), key_topics as the list it is
PF_CreateSummary ==
    /\ pf_pc = "call"
    /\ pf_call.fn = "create_summary"
    /\ LET summary == create_summary(get_conversation_manager, pf_call.messages)
       IN \E key_topics \in list_topics(summary.key_topics) :
             pf_call' = [pf_call EXCEPT !.result = [summary EXCEPT !.key_topics = key_topics]]
    /\ pf_pc' = "returned"
    /\ UNCHANGED <<lg_vars, wf_vars, rl_vars, rt_vars, cm_vars, id_vars>>

PF_Next ==
    \/ PF_AddDisclaimers
    \/ PF_ValidateQuery

KT_Next ==
    \/ PF_CreateSummary

\* ------------------------------------------------------------------------
\* the specifications: one component runs, the others are not in use
\* ------------------------------------------------------------------------

LG_Unused ==
    /\ lg_pc = "unused"
    /\ lg = initial_state(1)
    /\ lg_result = NoResult
    /\ lg_invoked = << >>
    /\ lg_llm_calls = << >>
    /\ lg_audit_log = << >>

OW_Unused ==
    /\ wf_pc = "unused"
    /\ wf = OrchestrationState(1)
    /\ wf_tasks = NoTasks
    /\ wf_outcomes = << >>
    /\ wf_clock = 0
    /\ wf_invoked = << >>
    /\ wf_context = NoContext

RL_Unused ==
    /\ rl_user_requests = << >>
    /\ rl_now = 0
    /\ rl_calls = [u \in Users |-> << >>]
    /\ rl_inflight = [r \in InFlightIds |-> NotCalling]
    /\ rl_running = NoRequest

RT_Unused ==
    /\ rt_pc = "unused"
    /\ rt_intents = << >>
    /\ rt_agents = << >>

CM_Unused ==
    /\ cm_pc = "unused"
    /\ cm_manager = get_conversation_manager
    /\ cm_state = ConversationState(<< >>)
    /\ cm_call = NoCall
    /\ cm_evicted = 0
    /\ cm_turns = 0

ID_Unused ==
    /\ id_pc = "unused"
    /\ id_input = << >>
    /\ id_state = NotDetected

PF_Unused ==
    /\ pf_pc = "unused"
    /\ pf_call = [fn |-> "none"]

\* one request through LangGraphOrchestrator.execute
InitLG == LG_Init /\ OW_Unused /\ RL_Unused /\ RT_Unused /\ CM_Unused /\ ID_Unused /\ PF_Unused

SpecLG == InitLG /\ [][LG_Next]_vars

\* one request through OrchestratorWorkflow.execute_workflow
InitWF == LG_Unused /\ OW_Init /\ RL_Unused /\ RT_Unused /\ CM_Unused /\ ID_Unused /\ PF_Unused

SpecWF == InitWF /\ [][OW_Next]_vars

\* one RateLimiter serving its users
InitRL == LG_Unused /\ OW_Unused /\ RL_Init /\ RT_Unused /\ CM_Unused /\ ID_Unused /\ PF_Unused

SpecRL == InitRL /\ [][RL_Next]_vars

\* one RateLimiter serving its users from one day into the next
InitRD == LG_Unused /\ OW_Unused /\ RL_Init /\ RT_Unused /\ CM_Unused /\ ID_Unused /\ PF_Unused

SpecRD == InitRD /\ [][RD_Next]_vars

\* one RateLimiter serving its users after busy hours of one of them
InitRF == LG_Unused /\ OW_Unused /\ RF_Init /\ RT_Unused /\ CM_Unused /\ ID_Unused /\ PF_Unused

SpecRF == InitRF /\ [][RF_Next]_vars

\* one RateLimiter called by several requests in flight
InitRC == LG_Unused /\ OW_Unused /\ RL_Init /\ RT_Unused /\ CM_Unused /\ ID_Unused /\ PF_Unused

SpecRC == InitRC /\ [][RC_Next]_vars

\* one call of the deterministic router
InitRT == LG_Unused /\ OW_Unused /\ RL_Unused /\ RT_Init /\ CM_Unused /\ ID_Unused /\ PF_Unused

SpecRT == InitRT /\ [][RT_Next]_vars

\* one conversation of several turns
InitCM == LG_Unused /\ OW_Unused /\ RL_Unused /\ RT_Unused /\ CM_Init /\ ID_Unused /\ PF_Unused

SpecCM == InitCM /\ [][CM_Next]_vars

\* node_intent_detection on one query
InitID == LG_Unused /\ OW_Unused /\ RL_Unused /\ RT_Unused /\ CM_Unused /\ ID_Init /\ PF_Unused

SpecID == InitID /\ [][ID_Next]_vars

\* one call of a function of the guardrails
InitPF ==
    LG_Unused /\ OW_Unused /\ RL_Unused /\ RT_Unused /\ CM_Unused /\ ID_Unused /\ PF_Init

SpecPF == InitPF /\ [][PF_Next]_vars

\* one call of create_summary
InitKT ==
    LG_Unused /\ OW_Unused /\ RL_Unused /\ RT_Unused /\ CM_Unused /\ ID_Unused /\ KT_Init

SpecKT == InitKT /\ [][KT_Next]_vars

\* RateLimiter.user_requests after n calls of is_allowed(user_id) made at one instant
RECURSIVE AfterCalls(_, _)
AfterCalls(user_id, n) ==
    IF n = 0 THEN << >>
    ELSE is_allowed(AfterCalls(user_id, n - 1), user_id, 0).user_requests

\* one request through LangGraphOrchestrator.execute, made while the process-wide
\* RateLimiter (get_rate_limiter) holds the requester's earlier calls of this minute
InitGate ==
    /\ LG_Init
    /\ rl_user_requests \in {AfterCalls(Requester, n) : n \in 0..(QUERIES_PER_MINUTE + 1)}
    /\ rl_now = 0
    /\ rl_calls = [u \in Users |-> << >>]
    /\ rl_inflight = [r \in InFlightIds |-> NotCalling]
    /\ rl_running = NoRequest
    /\ OW_Unused /\ RT_Unused /\ CM_Unused /\ ID_Unused /\ PF_Unused

SpecGate == InitGate /\ [][LG_Next]_vars

\* one call of AgentExecutor.execute in sequential mode
InitSQ ==
    LG_Unused /\ SQ_Init /\ RL_Unused /\ RT_Unused /\ CM_Unused /\ ID_Unused /\ PF_Unused

SpecSQ == InitSQ /\ [][SQ_Next]_vars

\* a request through either controller, or a call of the deterministic router
Init == InitLG \/ InitWF \/ InitRT

Next ==
    \/ LG_Next
    \/ OW_Next
    \/ RT_Next

Spec == Init /\ [][Next]_vars

\* ------------------------------------------------------------------------
\* properties
\* ------------------------------------------------------------------------

\* the user query of the LangGraph request
LgQuery == Inputs[lg.user_input]

\* C1: every input longer than MAX_QUERY_LENGTH or shorter than MIN_QUERY_LENGTH is
\* rejected by the input validator, no agent is invoked at any point of the run of
\* LangGraphOrchestrator.execute, and the result it returns has confidence 0
C1_LengthRejectedWithoutAgent ==
    (lg_pc # "unused" /\ (Len(LgQuery) > MAX_QUERY_LENGTH \/ Len(LgQuery) < MIN_QUERY_LENGTH))
        => /\ ~validate_query(LgQuery).is_valid
           /\ lg_invoked = << >>
           /\ lg_result.returned => lg_result.confidence = 0

\* C2: for an input holding an SSN-shaped substring (here one that also passes the
\* input validator, so that the PII warning is produced at the input stage) the
\* returned result has confidence 0 and its response is that PII warning, which
\* holds no SSN-shaped substring; no later stage replaces it
C2_PIIWarningIsFinal ==
    (lg_pc = "done" /\ MatchSSN(LgQuery) /\ validate_query(LgQuery).is_valid)
        => /\ lg_result.confidence = 0
           /\ lg_result.response = get_warning(detect(LgQuery))
           /\ ~MatchSSN(lg_result.response)

\* the agents of the workflow request by position, and how many of them raised
WfPositions == 1..Len(wf.selected_agents)

WfRaised == {i \in DOMAIN wf_outcomes : wf_outcomes[i].kind = "raise"}

\* every agent of a parallel pass has finished and exactly one of them raised
OneOfSeveralRaised ==
    /\ Len(wf.selected_agents) >= 2
    /\ DOMAIN wf_outcomes = WfPositions
    /\ \A i \in WfPositions : wf_outcomes[i].kind # "none"
    /\ Cardinality(WfRaised) = 1

\* the result map holds, for every selected agent, what that agent's own execute() did
BulkheadMap(results) ==
    /\ DOMAIN results = {wf.selected_agents[i] : i \in WfPositions}
    /\ \A i \in WfPositions :
          LET result == results[wf.selected_agents[i]]
          IN /\ result.agent = wf.selected_agents[i]
             /\ wf_outcomes[i].kind = "success"
                   => result.status = "success" /\ result.output = wf_outcomes[i].answer
             /\ wf_outcomes[i].kind = "raise"
                   => /\ result.status = "error"
                      /\ Contains(result.error, ErrorMessages[wf_outcomes[i].error])

\* C3: in parallel mode with two or more agents of which exactly one raises, gather
\* returns without raising, whatever the order in which the agents finished, and the
\* map stored from it has one entry per selected agent: status success with its own
\* output for every other agent, status error with the exception message for the
\* failing one
C3_ParallelBulkhead ==
    /\ []((wf_pc = "node_synthesis" /\ OneOfSeveralRaised) => BulkheadMap(wf.agent_outputs))
    /\ [][(wf_pc = "gather" /\ wf_pc' # "gather" /\ OneOfSeveralRaised)
              => wf_pc' = "process_results"]_vars

C3_Witness ==
    /\ wf_pc = "node_synthesis"
    /\ OneOfSeveralRaised
    /\ Len(wf.selected_agents) >= 3
    /\ wf_outcomes[1].kind = "raise"
    /\ wf.agent_outputs[wf.selected_agents[2]].status = "success"

\* C4: when one user makes QUERIES_PER_MINUTE + 1 calls of is_allowed within one
\* minute, starting from no recorded request, the first QUERIES_PER_MINUTE calls are
\* accepted and the next one is rejected
C4_MinuteLimit ==
    \A u \in Users :
        \A k \in 1..Len(rl_calls[u]) :
            (k <= QUERIES_PER_MINUTE + 1 /\ rl_calls[u][k].at - rl_calls[u][1].at < MinuteTicks)
                => (rl_calls[u][k].allowed <=> k <= QUERIES_PER_MINUTE)

C4_Witness ==
    \E u \in Users :
        /\ Len(rl_calls[u]) = QUERIES_PER_MINUTE + 1
        /\ rl_calls[u][QUERIES_PER_MINUTE + 1].at - rl_calls[u][1].at < MinuteTicks
        /\ rl_calls[u][1].at < rl_calls[u][QUERIES_PER_MINUTE + 1].at
        /\ ~rl_calls[u][QUERIES_PER_MINUTE + 1].allowed

\* C5: an exception raised in a stage never reaches the caller of either controller,
\* and the result returned after it carries a non-empty fallback response
C5_StageExceptionContained ==
    /\ lg_pc # "raised"
    /\ (wf_pc = "done" /\ wf.workflow_state = "error") => wf.synthesized_response # << >>

\* the order of the workflow states; error is terminal
StateRank ==
    [ input |-> 1, intent_detection |-> 2, routing |-> 3, execution |-> 4,
      synthesis |-> 5, complete |-> 6, error |-> 7 ]

\* C6: workflow_state only moves forward through input, intent_detection, routing,
\* execution, synthesis, complete, one state at a time and never back, or to error,
\* which it never leaves; a finished run is in complete or in error
C6_WorkflowStateForward ==
    /\ [](wf_pc = "done" => wf.workflow_state \in {"complete", "error"})
    /\ [][\/ wf.workflow_state' = wf.workflow_state
          \/ wf.workflow_state # "error" /\ wf.workflow_state' = "error"
          \/ /\ wf.workflow_state' # "error"
             /\ StateRank[wf.workflow_state'] = StateRank[wf.workflow_state] + 1]_vars

C6_Witness ==
    /\ wf_pc = "done"
    /\ wf.workflow_state = "complete"
    /\ Len(wf.agent_executions) >= 2

RouterReplied == Len(lg_llm_calls) = 1 /\ lg_llm_calls[1].outcome.kind = "reply"

RouterCallFailed == Len(lg_llm_calls) = 1 /\ lg_llm_calls[1].outcome.kind = "raise"

RouterReplyText == RouterReplies[lg_llm_calls[1].outcome.reply]

IsAgentName(text) == \E a \in DOMAIN AgentNameChars : AgentNameChars[a] = text

FallbackSelected ==
    /\ lg.selected_agent = "finance_qa"
    /\ lg.selected_agents = <<"finance_qa">>
    /\ lg_pc \in {"agent", "synthesis", "END", "done"}

\* C8 as stated: a reply that is not exactly one of the six agent names, and a failed
\* model call, both leave finance_qa in selected_agent and selected_agents, and
\* the request goes on
C8_ExactNameOrFallback ==
    /\ (RouterReplied /\ ~IsAgentName(RouterReplyText)) => FallbackSelected
    /\ RouterCallFailed => FallbackSelected

\* C8: a reply that is not one of the six agent names once surrounding whitespace is
\* stripped and letters are lower-cased, and a failed model call, both leave
\* finance_qa in selected_agent and selected_agents, and the request goes on
C8_NormalisedNameOrFallback ==
    /\ (RouterReplied /\ ~IsAgentName(Lower(Strip(RouterReplyText)))) => FallbackSelected
    /\ RouterCallFailed => FallbackSelected

C8_Witness ==
    /\ lg_pc = "done"
    /\ RouterReplied
    /\ ~IsAgentName(Lower(Strip(RouterReplyText)))
    /\ Len(RouterReplyText) > 0
    /\ lg_invoked[1] = "finance_qa"

\* the number of execution records of an agent kind in each controller
LgRecords(agent_type) ==
    Cardinality({i \in 1..Len(lg.agent_executions) :
                    NodeAgentType[lg.agent_executions[i].agent] = agent_type})

WfRecords(agent_type) ==
    Cardinality({i \in 1..Len(wf.agent_executions) :
                    wf.agent_executions[i].agent_type = agent_type})

\* C9: when a request has ended there is exactly one execution record for every agent
\* kind invoked during it, by any stage, and none for the others
C9_OneRecordPerInvokedAgent ==
    /\ lg_pc = "done"
          => \A a \in AgentType : LgRecords(a) = IF InList(a, lg_invoked) THEN 1 ELSE 0
    /\ wf_pc = "done"
          => \A a \in AgentType : WfRecords(a) = IF InList(a, wf_invoked) THEN 1 ELSE 0

\* C10: once the agents have been running for longer than the per-agent bound, or the
\* execution phase for longer than the overall bound, no agent is still awaited
C10_NoAgentAwaitedPastBound ==
    (/\ wf_pc \in {"gather", "sequential_await"}
     /\ \/ wf_clock * ClockTickMs > AGENT_TIMEOUT_MS
        \/ wf_clock * ClockTickMs > TOTAL_WORKFLOW_TIMEOUT_MS)
        => \A i \in 1..Len(wf_tasks) : wf_tasks[i].status # "pending"

\* a trim_history call was made, and it trimmed
CmCalled == cm_call.by # "none"

CmTrimmed == CmCalled /\ Len(cm_call.messages) > cm_manager.max_history

CmEvictedPrefix ==
    SubSeq(cm_call.messages, 1, Len(cm_call.messages) - cm_manager.max_history)

\* the history of the call with every message of the kept tail replaced by m
CmWithTail(m) ==
    CmEvictedPrefix \o [i \in 1..cm_manager.max_history |-> m]

C14_SummaryCoversAllEvicted ==
    (cm_call.by = "node_input" /\ cm_call.summary # NoSummary)
        => cm_call.summary[1].messages_included = cm_evicted

\* the disclaimer blocks add_disclaimers can append
DisclaimerBlocks ==
    {<<"\n", "\n">> \o get_disclaimer(t) : t \in {"tax", "goal_planning", "general"}}

\* what the output guardrails make of a generated text
Guarded(text) ==
    IF Len(detect(text)) > 0
    THEN {REDACTION_NOTICE}
    ELSE {text \o block : block \in DisclaimerBlocks}

\* the text the workflow's synthesis stage assembled
WfGenerated == SynthesizedResponse(wf)

\* C15: whenever a controller returns the answer to a request that was not rejected
\* at the input boundary, the response is the redaction notice (with confidence 0)
\* if the generated text holds PII, and the generated text followed by a disclaimer
\* block otherwise; in LangGraphOrchestrator the generated text is the answer of the
\* synthesis agent, in OrchestratorWorkflow the text ResponseSynthesizer assembled
C15_OutputGuardrailsApplied ==
    /\ (/\ lg_pc = "done"
        /\ validate_query(LgQuery).is_valid
        /\ Len(detect(LgQuery)) = 0
        /\ ~HasAt(lg_result.response, SYNTHESIS_ERROR_HEAD, 1))
          => /\ \E a \in AnswerIds : lg_result.response \in Guarded(Answers[a])
             /\ lg_result.response = REDACTION_NOTICE => lg_result.confidence = 0
    /\ (wf_pc = "done" /\ wf.workflow_state = "complete")
          => wf.synthesized_response \in Guarded(WfGenerated)

\* the workflow request ended with one agent selected; what that agent returned
WfSingle ==
    /\ wf_pc = "done"
    /\ wf.workflow_state = "complete"
    /\ Len(wf.selected_agents) = 1

WfSingleOutput == AgentOutputOf(wf, wf.selected_agents[1])

\* the LangGraph request ended after its one routed agent had succeeded
LgSingleSucceeded ==
    /\ lg_pc = "done"
    /\ Len(lg.agent_executions) = 1
    /\ lg.agent_executions[1].status = "success"

\* C16: with exactly one agent selected, the response of the request is that agent's
\* answer text as it is when the agent succeeded (in LangGraphOrchestrator before the
\* output guardrails, and with no call of another agent), and the error-substitution
\* text for that agent when it failed
C16_SingleAgentVerbatim ==
    /\ (WfSingle /\ WfSingleOutput.status = "success")
          => wf.synthesized_response = Answers[WfSingleOutput.output]
    /\ (WfSingle /\ WfSingleOutput.status = "error")
          => wf.synthesized_response
                = SINGLE_ERROR_HEAD \o ErrorOf(WfSingleOutput) \o SINGLE_ERROR_TAIL
    /\ LgSingleSucceeded
          => /\ Len(lg_invoked) = 1
             /\ lg_result.response \in
                    {Answers[lg.agent_executions[1].output]}
                        \cup Guarded(Answers[lg.agent_executions[1].output])

\* C17: the stage after routing depends on the selection alone: the execution stage
\* is entered only with a non-empty selection, and when synthesis is reached an
\* agent has been invoked exactly if the selection was not empty (with an empty
\* selection the run went straight to synthesis)
C17_BranchOnSelection ==
    /\ lg_pc = "agent" => lg.selected_agents # << >>
    /\ lg_pc = "synthesis" => (lg.selected_agents = << >> <=> lg_invoked = << >>)
    /\ wf_pc \in {"gather", "sequential", "sequential_await"} => wf.selected_agents # << >>
    /\ wf_pc = "node_synthesis" => (wf.selected_agents = << >> <=> wf_invoked = << >>)

\* the places (intent position, position in the intent's agent list) where the
\* walk over rt_intents meets an agent kind, and the first of them for an agent
RtPlaces ==
    {<<i, k>> \in (1..Len(rt_intents)) \X (1..3) :
        /\ rt_intents[i] \in DOMAIN INTENT_TO_AGENTS
        /\ k <= Len(INTENT_TO_AGENTS[rt_intents[i]])}

RtAgentAt(place) == INTENT_TO_AGENTS[rt_intents[place[1]]][place[2]]

RtBefore(p, q) == p[1] < q[1] \/ (p[1] = q[1] /\ p[2] < q[2])

RtFirstPlace(agent) ==
    CHOOSE p \in RtPlaces :
        /\ RtAgentAt(p) = agent
        /\ \A q \in RtPlaces : RtAgentAt(q) = agent => (q = p \/ RtBefore(p, q))

\* C18: the agents make_routing_decision returns are the agent kinds met on the walk
\* over the intents and their agent lists, each once, in the order in which they are
\* first met; it returns [finance_qa] when the walk meets none
C18_RoutingWalkDeduplicated ==
    rt_pc = "routed" =>
        IF RtPlaces = {}
        THEN rt_agents = <<"finance_qa">>
        ELSE /\ {rt_agents[i] : i \in 1..Len(rt_agents)} = {RtAgentAt(p) : p \in RtPlaces}
             /\ \A i, k \in 1..Len(rt_agents) : i # k => rt_agents[i] # rt_agents[k]
             /\ \A i, k \in 1..Len(rt_agents) :
                   i < k => RtBefore(RtFirstPlace(rt_agents[i]), RtFirstPlace(rt_agents[k]))

\* a walk that met an agent kind again after others: investment_plan, then
\* tax_question, then portfolio_analysis
C18_Witness ==
    /\ rt_pc = "routed"
    /\ rt_intents = <<"investment_plan", "tax_question", "portfolio_analysis">>
    /\ rt_agents = <<"portfolio_analysis", "goal_planning", "tax_education">>
    /\ Cardinality(RtPlaces) = 5

\* node_intent_detection has run on the query
IdDetected == id_pc = "detected"

\* the intents of the keyword table
IdIntents == {INTENT_ORDER[k] : k \in 1..Len(INTENT_ORDER)}

\* the place of an intent in the keyword table
IdPlace(intent) == CHOOSE k \in 1..Len(INTENT_ORDER) : INTENT_ORDER[k] = intent

\* the keywords of an intent that occur in the lowercased query
IdMatches(intent) ==
    {k \in 1..Len(INTENT_KEYWORDS[intent]) :
        Contains(Lower(id_input), INTENT_KEYWORDS[intent][k])}

\* the intents with at least one keyword in the lowercased query
IdMatched == {i \in IdIntents : IdMatches(i) # {}}

\* C19: detect_intents returns exactly the intents with at least one keyword match in
\* the lowercased text, each once, a higher match count first and equal counts in
\* keyword-table order; with no match it returns [unknown]; the result is never empty
\* and never holds unknown together with another intent
C19_DetectedIntentsOrdered ==
    IdDetected =>
        LET r == id_state.detected_intents
        IN /\ Len(r) > 0
           /\ (\E k \in 1..Len(r) : r[k] = "unknown") => Len(r) = 1
           /\ IF IdMatched = {}
              THEN r = <<"unknown">>
              ELSE /\ {r[k] : k \in 1..Len(r)} = IdMatched
                   /\ Len(r) = Cardinality(IdMatched)
                   /\ \A j, k \in 1..Len(r) :
                          j < k =>
                              \/ Cardinality(IdMatches(r[j])) > Cardinality(IdMatches(r[k]))
                              \/ /\ Cardinality(IdMatches(r[j])) = Cardinality(IdMatches(r[k]))
                                 /\ IdPlace(r[j]) < IdPlace(r[k])

\* a result with two intents of equal count, and with an intent that is later in the
\* table ahead of an earlier one because it has more matches
C19_Witness ==
    /\ IdDetected
    /\ LET r == id_state.detected_intents
       IN /\ \E j, k \in 1..Len(r) :
                 /\ j < k
                 /\ r[j] \in IdIntents /\ r[k] \in IdIntents
                 /\ Cardinality(IdMatches(r[j])) = Cardinality(IdMatches(r[k]))
          /\ \E j, k \in 1..Len(r) :
                 /\ j < k
                 /\ r[j] \in IdIntents /\ r[k] \in IdIntents
                 /\ Cardinality(IdMatches(r[j])) > Cardinality(IdMatches(r[k]))
                 /\ IdPlace(r[j]) > IdPlace(r[k])

\* the keyword matches of the detected intents: one for each keyword of a detected
\* intent that occurs in the lowercased query
IdKeywordMatches ==
    LET r == id_state.detected_intents
        detected == {r[k] : k \in 1..Len(r)} \cap IdIntents
    IN Cardinality({p \in UNION {{<<i, k>> : k \in 1..Len(INTENT_KEYWORDS[i])} : i \in detected} :
                       p[2] \in IdMatches(p[1])})

\* one for each of tickers, amounts and timeframe that was extracted
IdExtractions ==
    (IF id_state.extracted_tickers # {} THEN 1 ELSE 0)
    + (IF id_state.extracted_amounts # << >> THEN 1 ELSE 0)
    + (IF id_state.extracted_timeframe # << >> THEN 1 ELSE 0)

\* a score in tenths clamped to [0.3, 1.0]
IdClamped(tenths) == IF tenths < 3 THEN 3 ELSE IF tenths > 10 THEN 10 ELSE tenths

IdOnlyUnknown == id_state.detected_intents = <<"unknown">>

\* C20 as stated: the confidence is 0.3 when only unknown was detected, otherwise 0.5
\* plus 0.1 for each keyword match beyond the first (at most 0.3) plus 0.1 for each of
\* tickers, amounts and timeframe that was extracted, clamped to [0.3, 1.0]; in tenths
C20_ConfidenceBeyondFirstMatch ==
    IdDetected =>
        id_state.confidence_score =
            IF IdOnlyUnknown THEN 3
            ELSE IdClamped(5 + (IF IdKeywordMatches - 1 > 3 THEN 3
                                ELSE IF IdKeywordMatches < 1 THEN 0
                                ELSE IdKeywordMatches - 1)
                             + IdExtractions)

\* C20 amended: the confidence is 0.3 when only unknown was detected, otherwise 0.5
\* plus 0.1 for each keyword match, the first included (at most 0.3), plus 0.1 for each
\* of tickers, amounts and timeframe that was extracted, clamped to [0.3, 1.0]; in tenths
C20_ConfidenceEveryMatch ==
    IdDetected =>
        id_state.confidence_score =
            IF IdOnlyUnknown THEN 3
            ELSE IdClamped(5 + (IF IdKeywordMatches > 3 THEN 3 ELSE IdKeywordMatches)
                             + IdExtractions)

\* a query with more than three keyword matches and all three extractions: the
\* contribution of the matches is capped and the sum is clamped to 1.0
C20_Witness ==
    /\ IdDetected
    /\ ~IdOnlyUnknown
    /\ IdKeywordMatches > 3
    /\ IdExtractions = 3
    /\ id_state.confidence_score = 10

PfReturned(fn) == pf_pc = "returned" /\ pf_call.fn = fn

\* C21: add_disclaimers appends the tax block whenever a tax intent is among the
\* detected intents; otherwise the investment/planning block whenever an investment-plan
\* or goal-planning intent is among them; otherwise the general block
C21_DisclaimerByPriority ==
    PfReturned("add_disclaimers") =>
        LET intents == pf_call.intent_types
            head == pf_call.response \o <<"\n", "\n">>
        IN IF InList("tax_question", intents)
           THEN pf_call.result = head \o DISCLAIMER_tax
           ELSE IF InList("investment_plan", intents) \/ InList("goal_planning", intents)
           THEN pf_call.result \in {head \o DISCLAIMER_investment,
                                    head \o DISCLAIMER_goal_planning}
           ELSE pf_call.result = head \o DISCLAIMER_general

\* the workflow returned a response synthesized from several selected agents
WfMulti ==
    /\ wf_pc = "done"
    /\ wf.workflow_state = "complete"
    /\ Len(wf.selected_agents) > 1

\* the places of the selected agents whose execute() returned an output
WfSucceeded == {i \in 1..Len(wf.selected_agents) : wf_outcomes[i].kind = "success"}

\* the place of an agent's bucket in the fixed order
WfBucketRank(agent_type) ==
    CASE agent_type = "portfolio_analysis" -> 1
      [] agent_type = "market_analysis" -> 2
      [] agent_type = "goal_planning" -> 3
      [] OTHER -> 4

\* the section of the agent at a place of the selection
WfSection(i) ==
    SectionHead(wf.selected_agents[i]) \o _extract_response_text(wf_outcomes[i].answer)

\* the successful places listed by bucket, and by selection order within a bucket
WfSectionOrders ==
    {order \in [1..Cardinality(WfSucceeded) -> WfSucceeded] :
        \A j, k \in 1..Cardinality(WfSucceeded) :
            j < k =>
                \/ WfBucketRank(wf.selected_agents[order[j]])
                      < WfBucketRank(wf.selected_agents[order[k]])
                \/ /\ WfBucketRank(wf.selected_agents[order[j]])
                         = WfBucketRank(wf.selected_agents[order[k]])
                   /\ order[j] < order[k]}

\* C22: in the multi-agent case the text is one section per successful agent, in the
\* bucket order portfolio, market, planning, education/tax/news whatever the order of
\* selected_agents, with no section for a failed agent; if every selected agent failed
\* it is one message with each agent's error on a line of its own and then the prompt
\* to rephrase
C22_MultiAgentSections ==
    WfMulti =>
        IF WfSucceeded # {}
        THEN \E order \in WfSectionOrders :
                wf.synthesized_response =
                    Join([k \in 1..Cardinality(WfSucceeded) |-> WfSection(order[k])],
                         <<"\n", "\n">>)
        ELSE wf.synthesized_response =
                 MULTI_ERROR_HEAD
                   \o Join([i \in 1..Len(wf.selected_agents) |->
                               <<"-", " ">> \o wf.agent_outputs[wf.selected_agents[i]].error],
                           <<"\n">>)
                   \o MULTI_ERROR_TAIL

\* several agents succeeded and one failed, and an agent selected later has its section
\* ahead of one selected earlier
C22_Witness ==
    /\ WfMulti
    /\ \E i \in 1..Len(wf.selected_agents) : i \notin WfSucceeded
    /\ \E i, j \in WfSucceeded :
          /\ i < j
          /\ WfBucketRank(wf.selected_agents[j]) < WfBucketRank(wf.selected_agents[i])

\* the texts of the exceptions raised while a request runs
ExceptionTexts == {ErrorMessages[e] : e \in DOMAIN ErrorMessages}

\* every agent the workflow selected failed, or a stage of the workflow raised
WfTotalFailure ==
    /\ wf_pc = "done"
    /\ \/ wf.workflow_state = "error"
       \/ /\ wf.workflow_state = "complete"
          /\ Len(wf.selected_agents) > 0
          /\ \A i \in 1..Len(wf.selected_agents) : wf_outcomes[i].kind = "raise"

\* C23: on total failure (an exception in a stage, or every selected agent failed) the
\* response returned to the user is a generic apology that holds the text of no
\* exception; no response LangGraphOrchestrator returns holds such a text
C23_NoErrorTextInResponse ==
    /\ lg_pc = "done" =>
          \A text \in ExceptionTexts : ~Contains(lg_result.response, text)
    /\ WfTotalFailure =>
          \A text \in ExceptionTexts : ~Contains(wf.synthesized_response, text)

\* the citation lists of the agent outputs recorded in a list of executions, in order
RECURSIVE CitedBy(_)
CitedBy(executions) ==
    IF Len(executions) = 0 THEN << >>
    ELSE (IF Head(executions).status = "success"
          THEN AnswerCitations[Head(executions).output]
          ELSE << >>)
           \o CitedBy(Tail(executions))

\* the first place of a source URL in a list of citations
FirstCited(citations, url) ==
    CHOOSE i \in 1..Len(citations) :
        /\ citations[i].source_url = url
        /\ \A j \in 1..(i - 1) : citations[j].source_url # url

\* `final` has one entry per source URL of `cited`, in the order in which the URLs
\* are first seen in `cited`
MergedCitations(final, cited) ==
    /\ \A i, j \in 1..Len(final) : i # j => final[i].source_url # final[j].source_url
    /\ \A i \in 1..Len(cited) : \E j \in 1..Len(final) : final[j] = cited[i]
    /\ \A j \in 1..Len(final) : \E i \in 1..Len(cited) : cited[i] = final[j]
    /\ \A i, j \in 1..Len(final) :
          i < j => FirstCited(cited, final[i].source_url)
                      < FirstCited(cited, final[j].source_url)

\* C24: the citation list of the final result holds the citations of all agent outputs
\* of the request, no two entries with the same source URL, in first-seen order
C24_CitationsMergedInOrder ==
    /\ (lg_pc = "done" /\ lg_result.confidence > 0) =>
          MergedCitations(lg_result.citations,
                          CitedBy(lg.agent_executions) \o lg_result.citations)
    /\ (wf_pc = "done" /\ wf.workflow_state = "complete") =>
          MergedCitations(wf.citations, CitedBy(wf.agent_executions))

\* the requester's recorded requests meet the per-minute, per-hour or per-day cap
RequesterAtCap ==
    /\ Requester \in DOMAIN rl_user_requests
    /\ LET requests == RequestsAfter(rl_user_requests[Requester], rl_now - DayTicks)
       IN \/ Len(RequestsAfter(requests, rl_now - MinuteTicks)) >= QUERIES_PER_MINUTE
          \/ Len(RequestsAfter(requests, rl_now - HourTicks)) >= QUERIES_PER_HOUR
          \/ Len(requests) >= QUERIES_PER_DAY

\* C25: a request from a user whose per-minute, per-hour or per-day count already
\* meets its cap is rejected at the input boundary: no intent is detected, the router
\* model is not called, no agent is invoked, and the response returned is a canned
\* text with confidence 0
C25_RateLimitedRejectedAtInput ==
    (RequesterAtCap /\ lg_pc # "input") =>
        /\ lg.detected_intents = << >>
        /\ lg_llm_calls = << >>
        /\ lg_invoked = << >>
        /\ lg_pc = "done" => (lg_result.confidence = 0 /\ lg_result.response # << >>)

\* the request through LangGraphOrchestrator.execute reached a terminal state: execute
\* returned its result, or the exception of a node reached the caller
LgTerminal == lg_pc \in {"done", "raised"}

\* C26: every request that reaches a terminal state (success or error) has produced
\* exactly one audit log entry, and the entry holds a hash of the raw query, never the
\* query text itself
C26_OneAuditEntryPerRequest ==
    LgTerminal =>
        /\ Len(lg_audit_log) = 1
        /\ lg_audit_log[1].query_hash # LgQuery
        /\ lg_audit_log[1].status \in {"success", "error"}

\* the executor runs, or has run, its agents in sequential mode
SqRunning == wf_pc \in {"sequential", "sequential_await", "process_results", "node_synthesis"}

\* C27: in sequential mode the agents are called one at a time in the order given; the
\* context passed to an agent holds, under its kind's key, the output of every earlier
\* agent that completed successfully and of no agent that failed; a failure does not
\* stop the later agents from running
C27_SequentialSharedOutputs ==
    SqRunning =>
        /\ wf_invoked = SubSeq(wf.selected_agents, 1, Len(wf_invoked))
        /\ Cardinality({i \in 1..Len(wf_tasks) : wf_tasks[i].status = "pending"}) <= 1
        /\ \A k \in 1..Len(wf_context.passed) :
              wf_context.passed[k] =
                  {wf.selected_agents[j] : j \in {i \in 1..(k - 1) : wf_tasks[i].status = "success"}}
        /\ wf_pc \in {"process_results", "node_synthesis"} =>
              Len(wf_invoked) = Len(wf.selected_agents)

\* no agent kind occurs twice in a list of execute() calls
InvokedOnce(invoked) ==
    \A i, j \in 1..Len(invoked) : i # j => invoked[i] # invoked[j]

\* C28: within one orchestration pass no agent is invoked more than once: a failed
\* agent is not invoked again, and no stage invokes an agent that the execution stage
\* has already run
C28_NoAgentInvokedTwice ==
    /\ InvokedOnce(lg_invoked)
    /\ InvokedOnce(wf_invoked)

\* ------------------------------------------------------------------------
\* src/orchestration/langgraph_workflow.py: the conversation history of a request
\* through LangGraphOrchestrator, which the caller passes to execute()
\* ------------------------------------------------------------------------

\* the attributes of the dataclass ConversationSummary
ConversationSummaryAttributes ==
    {"summary_text", "messages_included", "key_topics", "key_decisions", "timestamp"}

\* the attributes of the summary _node_input reads to build conversation_summary
SummaryAttributesRead ==
    {"key_topics", "summary_text", "conversation_intent", "messages_summarized"}

\* _node_input from the end of the guardrail checks, on the fields of the state a
\* conversation carries, for a conversation_manager `self`: a rejected input returns
\* before the history is touched; the user's message is appended to the list in the
\* state, the list trim_history returns is bound to a local name only, and reading
\* an attribute the summary does not have raises inside the try block, whose handler
\* logs a warning and leaves the state as it is
_node_input_history(self, state) ==
    IF \/ ~validate_query(state.user_input).is_valid
       \/ Len(detect(state.user_input)) > 0
    THEN state
    ELSE LET added == add_message(state, "user", state.user_input)
             result == trim_history(self, added.conversation_history)
         IN IF result.summary # NoSummary
            THEN IF SummaryAttributesRead \subseteq ConversationSummaryAttributes
                 THEN [added EXCEPT !.conversation_summary = result.summary]
                 ELSE added
            ELSE added

LH_Init ==
    /\ cm_pc = "request"
    /\ cm_manager \in Managers
    /\ cm_state \in {ConversationState(h) : h \in PriorHistories}
    /\ cm_call = NoCall
    /\ cm_evicted = 0
    /\ cm_turns = 0

\* node "input" of a request whose conversation_history is the carried one
LH_NodeInput ==
    /\ cm_pc = "request"
    /\ \E content \in UserContents :
          LET carried == [cm_state EXCEPT !.user_input = content]
              messages == add_message(carried, "user", content).conversation_history
              result == trim_history(cm_manager, messages)
          IN /\ cm_state' = _node_input_history(cm_manager, carried)
             /\ cm_call' = [by |-> "_node_input", messages |-> messages,
                            trimmed |-> result.trimmed, summary |-> result.summary,
                            tail_of_trim |-> FALSE]
             /\ cm_evicted' = Len(messages) - Len(result.trimmed)
    /\ cm_pc' = "intent_detection"
    /\ cm_turns' = cm_turns + 1
    /\ UNCHANGED cm_manager
    /\ UNCHANGED <<lg_vars, wf_vars, rl_vars, rt_vars, id_vars, pf_vars>>

LH_Next ==
    \/ LH_NodeInput

\* the input node of one request through LangGraphOrchestrator.execute
InitLH == LG_Unused /\ OW_Unused /\ RL_Unused /\ RT_Unused /\ LH_Init /\ ID_Unused /\ PF_Unused

SpecLH == InitLH /\ [][LH_Next]_vars

\* the input stage of a controller has just run on an accepted input
AfterInputStage ==
    \/ cm_pc = "synthesis" /\ cm_call.by = "node_input"
    \/ cm_pc = "intent_detection" /\ cm_call.by = "_node_input"

\* C29: after the input stage of a request the conversation history in the state has
\* at most max_history messages, and when the trimming evicted messages the state
\* holds the summary produced for them, in both controllers
C29_HistoryTrimmedAndSummarized ==
    AfterInputStage =>
        /\ Len(cm_state.conversation_history) <= cm_manager.max_history
        /\ Len(cm_call.messages) > Len(cm_call.trimmed) =>
               cm_state.conversation_summary = cm_call.summary /\ cm_call.summary # NoSummary

\* the timestamps the limiter holds for a user
Recorded(u) ==
    IF u \in DOMAIN rl_user_requests THEN rl_user_requests[u] ELSE << >>

\* the step is a call of is_allowed by u that was rejected
RejectedCall(u) ==
    /\ Len(rl_calls'[u]) = Len(rl_calls[u]) + 1
    /\ ~rl_calls'[u][Len(rl_calls'[u])].allowed

\* the accepted calls of u before its k-th call that lie inside the window ending at
\* the k-th call
AcceptedInWindow(u, k, window) ==
    Cardinality({j \in 1..(k - 1) :
                    /\ rl_calls[u][j].allowed
                    /\ rl_calls[u][j].at > rl_calls[u][k].at - window})

\* every decision is the one the accepted calls alone give
DecidedByAcceptedCalls ==
    \A u \in Users :
        \A k \in 1..Len(rl_calls[u]) :
            rl_calls[u][k].allowed <=>
                /\ AcceptedInWindow(u, k, MinuteTicks) < QUERIES_PER_MINUTE
                /\ AcceptedInWindow(u, k, HourTicks) < QUERIES_PER_HOUR
                /\ AcceptedInWindow(u, k, DayTicks) < QUERIES_PER_DAY

\* C30: a call of is_allowed that is rejected records nothing: the user's recorded
\* timestamps after it are those held before it without the ones that have left the
\* one-day window (a day old or older), no other user's timestamps change, and every
\* decision is the one the accepted requests alone give, so a rejected request counts
\* in no window and does not prolong the lockout
C30_RejectedNotRecorded ==
    [][ /\ \A u \in Users :
              RejectedCall(u) =>
                  /\ Recorded(u)' = RequestsAfter(Recorded(u), rl_now - DayTicks)
                  /\ \A v \in Users \ {u} : Recorded(v)' = Recorded(v)
        /\ DecidedByAcceptedCalls' ]_vars

\* a user at the per-minute cap is rejected when a request accepted a day earlier
\* is still held, and the call leaves the requests of the last minute only
C30_Witness ==
    \E u \in Users :
        /\ Len(rl_calls[u]) > QUERIES_PER_MINUTE
        /\ ~rl_calls[u][Len(rl_calls[u])].allowed
        /\ rl_calls[u][Len(rl_calls[u])].at = rl_now
        /\ rl_calls[u][Len(rl_calls[u]) - 1].allowed
        /\ rl_calls[u][1].allowed
        /\ rl_calls[u][1].at <= rl_now - DayTicks
        /\ Len(Recorded(u)) = QUERIES_PER_MINUTE

\* how many times t occurs in a list of timestamps
Occurrences(requests, t) ==
    Cardinality({i \in 1..Len(requests) : requests[i] = t})

\* how many calls of u were accepted at time t
AcceptedAt(u, t) ==
    Cardinality({k \in 1..Len(rl_calls[u]) : rl_calls[u][k].allowed /\ rl_calls[u][k].at = t})

\* the accepted calls of u inside the window that ends at its k-th call, that call
\* included
AcceptedWithin(u, k, window) ==
    Cardinality({j \in 1..Len(rl_calls[u]) :
                    /\ rl_calls[u][j].allowed
                    /\ rl_calls[u][j].at > rl_calls[u][k].at - window
                    /\ rl_calls[u][j].at <= rl_calls[u][k].at})

VALIDATION_RULES ==
    <<"too_long", "too_short", "invalid_characters", "suspicious_patterns", "too_many_special">>

\* the rule at place n of VALIDATION_RULES fails on user_input
RuleFails(n, user_input) ==
    CASE n = 1 -> Len(user_input) > MAX_QUERY_LENGTH
      [] n = 2 -> Len(user_input) < MIN_QUERY_LENGTH
      [] n = 3 -> \E i \in 1..Len(user_input) : ~IsAllowedChar(user_input[i])
      [] n = 4 -> \E p \in 1..Len(dangerous_patterns) :
                      Contains(Upper(user_input), dangerous_patterns[p])
      [] n = 5 -> 10 * special_count(user_input) > 3 * Len(user_input)

\* C32: validate_query returns (False, message) of the first rule that fails in the
\* order too long, too short, disallowed character, suspicious substring, too many
\* special characters, and (True, None) only when every rule passes
C32_FirstFailingRuleReported ==
    PfReturned("validate_query") =>
        LET failing == {n \in 1..Len(VALIDATION_RULES) : RuleFails(n, pf_call.user_input)}
        IN IF failing = {}
           THEN pf_call.result = [is_valid |-> TRUE, error |-> "none"]
           ELSE pf_call.result =
                    [is_valid |-> FALSE,
                     error |-> VALIDATION_RULES[CHOOSE n \in failing : \A m \in failing : n <= m]]

\* a query with a disallowed character, an SQL word and too many special characters
\* was rejected for the character
C32_Witness ==
    /\ PfReturned("validate_query")
    /\ RuleFails(3, pf_call.user_input)
    /\ RuleFails(4, pf_call.user_input)
    /\ pf_call.result.error = "invalid_characters"

\* ", ".join(sorted(topics)[:5]) as a list: the first five matched labels in sorted
\* order, the labels the summary text names
SortedTopics(messages) ==
    LET found == topics(messages)
        InTopics(p) == p \in found
        sorted_topics == Prefix(SelectSeq(sorted_topic_positions, InTopics), 5)
    IN [i \in 1..Len(sorted_topics) |-> financial_keywords[sorted_topics[i]].topic_name]

\* C33: key_topics of a summary holds at most 5 labels and is the list of the first
\* five matched labels in sorted order, the labels the summary text names
C33_KeyTopicsSortedFirstFive ==
    PfReturned("create_summary") =>
        /\ Len(pf_call.result.key_topics) <= 5
        /\ pf_call.result.key_topics = SortedTopics(pf_call.messages)

\* ------------------------------------------------------------------------
\* src/orchestration/langgraph_workflow.py: the node "error_handler" called on a state
\* ------------------------------------------------------------------------

\* _node_error_handler writing the fallback text over any response
_node_error_handler_overwrites(state) ==
    [state EXCEPT !.final_response = ERROR_HANDLER_FALLBACK,
                  !.confidence = 0]

\* _node_error_handler: `not state.get("final_response")` holds of the empty text
_node_error_handler(state) ==
    [state EXCEPT !.final_response = IF @ = << >> THEN ERROR_HANDLER_FALLBACK ELSE @,
                  !.confidence = 0]

\* the states the node is called on: a request's state with any response text and
\* confidence (in hundredths) a node before it left
EH_Init ==
    /\ lg_pc = "error_handler"
    /\ \E i \in 1..Len(Inputs), final_response \in Responses, confidence \in {0, 50, 85} :
          lg = [initial_state(i) EXCEPT !.final_response = final_response,
                                        !.confidence = confidence]
    /\ lg_result = NoResult
    /\ lg_invoked = << >>
    /\ lg_llm_calls = << >>
    /\ lg_audit_log = << >>

\* node "error_handler"
EH_NodeErrorHandler ==
    /\ lg_pc = "error_handler"
    /\ lg' = _node_error_handler(lg)
    /\ lg_pc' = "error_handled"
    /\ UNCHANGED <<lg_result, lg_invoked, lg_llm_calls, lg_audit_log>>
    /\ UNCHANGED <<wf_vars, rl_vars, rt_vars, cm_vars, id_vars, pf_vars>>

EH_Next ==
    \/ EH_NodeErrorHandler

\* one call of the node "error_handler"
InitEH == EH_Init /\ OW_Unused /\ RL_Unused /\ RT_Unused /\ CM_Unused /\ ID_Unused /\ PF_Unused

SpecEH == InitEH /\ [][EH_Next]_vars

\* C34: the error_handler node leaves a non-empty final response and confidence 0: the
\* generic fallback text when the state had no final response, the response it had
\* otherwise, and every other field of the state as it was
C34_ErrorHandlerFallbackOnly ==
    [][ lg_pc = "error_handler" =>
          /\ lg'.final_response # << >>
          /\ lg'.confidence = 0
          /\ lg'.final_response = IF lg.final_response = << >> THEN ERROR_HANDLER_FALLBACK
                                  ELSE lg.final_response
          /\ \A field \in DOMAIN lg \ {"final_response", "confidence"} :
                lg'[field] = lg[field]
          /\ DOMAIN lg' = DOMAIN lg ]_vars

\* the node was called on a state that had a response and kept it
C34_Witness ==
    /\ lg_pc = "error_handled"
    /\ lg.final_response # << >>
    /\ lg.final_response # ERROR_HANDLER_FALLBACK
    /\ lg.confidence = 0

\* C35: when the PII detector matches on the user input of a request through
\* LangGraphOrchestrator, the input is passed neither to the router's model call nor
\* to any agent during that request
C35_PIIInputReachesNoComponent ==
    (lg_pc # "unused" /\ lg.pii_detected) =>
        /\ \A c \in 1..Len(lg_llm_calls) : lg_llm_calls[c].prompt # lg.user_input
        /\ lg_invoked = << >>

\* the last call of is_allowed by u was made at the present moment
JustChecked(u) ==
    /\ Len(rl_calls[u]) > 0
    /\ rl_calls[u][Len(rl_calls[u])].at = rl_now

\* C36: after any sequence of is_allowed calls, every user's recorded timestamps of
\* the trailing minute are at most QUERIES_PER_MINUTE, those of the trailing hour at
\* most QUERIES_PER_HOUR, the stored list holds at most QUERIES_PER_DAY entries, and
\* after a check of the user it holds no entry a day old or older
C36_RecordedWithinCaps ==
    \A u \in Users :
        /\ Len(RequestsAfter(Recorded(u), rl_now - MinuteTicks)) <= QUERIES_PER_MINUTE
        /\ Len(RequestsAfter(Recorded(u), rl_now - HourTicks)) <= QUERIES_PER_HOUR
        /\ Len(Recorded(u)) <= QUERIES_PER_DAY
        /\ JustChecked(u) =>
               \A i \in 1..Len(Recorded(u)) : Recorded(u)[i] > rl_now - DayTicks

\* a user holding QUERIES_PER_DAY entries, none of the last hour, was rejected for the
\* day
C36_Witness ==
    \E u \in Users :
        /\ JustChecked(u)
        /\ rl_calls[u][Len(rl_calls[u])].error = "queries/day"
        /\ Len(Recorded(u)) = QUERIES_PER_DAY

\* the step is a call of is_allowed by u
CallBy(u) ==
    Len(rl_calls'[u]) = Len(rl_calls[u]) + 1

\* C37: a call of is_allowed for one user leaves the recorded timestamps of every other
\* user as they were, and the decision of every call is the one the caller's own
\* earlier accepted requests and the time of the call give
C37_PerUserIsolation ==
    [][ /\ \A u \in Users :
              CallBy(u) => \A v \in Users \ {u} :
                               /\ Recorded(v)' = Recorded(v)
                               /\ (v \in DOMAIN rl_user_requests) => (v \in DOMAIN rl_user_requests')
        /\ \A u \in Users :
              \A k \in 1..Len(rl_calls'[u]) :
                  rl_calls'[u][k].allowed <=>
                      /\ Cardinality({j \in 1..(k - 1) :
                            /\ rl_calls'[u][j].allowed
                            /\ rl_calls'[u][j].at > rl_calls'[u][k].at - MinuteTicks})
                                < QUERIES_PER_MINUTE
                      /\ Cardinality({j \in 1..(k - 1) :
                            /\ rl_calls'[u][j].allowed
                            /\ rl_calls'[u][j].at > rl_calls'[u][k].at - HourTicks})
                                < QUERIES_PER_HOUR
                      /\ Cardinality({j \in 1..(k - 1) :
                            /\ rl_calls'[u][j].allowed
                            /\ rl_calls'[u][j].at > rl_calls'[u][k].at - DayTicks})
                                < QUERIES_PER_DAY ]_vars

\* one user is rejected at the per-minute cap and another user is accepted at the
\* same moment
C37_Witness ==
    \E u, v \in Users :
        /\ u # v
        /\ Cardinality({j \in 1..Len(rl_calls[u]) :
              /\ rl_calls[u][j].allowed
              /\ rl_calls[u][j].at < rl_now
              /\ rl_calls[u][j].at > rl_now - MinuteTicks}) = QUERIES_PER_MINUTE
        /\ \E j \in 1..Len(rl_calls[u]) : rl_calls[u][j].at = rl_now /\ ~rl_calls[u][j].allowed
        /\ \E j \in 1..Len(rl_calls[v]) : rl_calls[v][j].at = rl_now /\ rl_calls[v][j].allowed
        /\ Len(Recorded(v)) = 1

\* the agents a list or set of agent-node names stands for
NamedAgents(names) ==
    {NodeAgentType[a] : a \in names}

\* C38: in the result LangGraphOrchestrator.execute returns, agents_used names exactly
\* the agents that were executed during the request, and execution_times has an entry
\* for exactly those agents
C38_AgentsUsedAreThoseExecuted ==
    lg_pc = "done" =>
        LET executed == {lg_invoked[i] : i \in 1..Len(lg_invoked)}
        IN /\ NamedAgents({lg_result.agents_used[i] : i \in 1..Len(lg_result.agents_used)})
                  = executed
           /\ NamedAgents(lg_result.execution_times) = executed

\* ------------------------------------------------------------------------
\* src/orchestration/agent_executor.py: execute_agents_parallel and
\* execute_agents_sequential called one after the other with the same agents, input
\* and context. wf_tasks holds the coroutines of the parallel call followed by those of
\* the sequential call, and wf_outcomes what the execute() of the agent at each position
\* of the list does: the same in both calls, since it gets the same input and does not
\* look at the other agents' results
\* ------------------------------------------------------------------------

\* both calls are made on the agents of a state that went through routing
PS_Init ==
    /\ wf_pc = "execute_agents_parallel"
    /\ wf \in {node_routing(node_intent_detection(node_input(OrchestrationState(u)))) :
                  u \in InputIds}
    /\ wf_tasks = NoTasks
    /\ wf_outcomes = << >>
    /\ wf_clock = 0
    /\ wf_invoked = << >>
    /\ wf_context = NoContext

\* the place in the agents list of the coroutine at place i of wf_tasks
ListPosition(i) ==
    IF i > Len(wf.selected_agents) THEN i - Len(wf.selected_agents) ELSE i

\* execute_agents_parallel up to its await: gather starts every execute_agent
\* coroutine, each running to its agent.execute()
PS_ParallelCall ==
    /\ wf_pc = "execute_agents_parallel"
    /\ wf_tasks' = [i \in 1..Len(wf.selected_agents) |-> PendingTask(wf.selected_agents[i])]
    /\ wf_outcomes' = [i \in 1..Len(wf.selected_agents) |-> NoOutcome]
    /\ wf_invoked' = wf_invoked \o wf.selected_agents
    /\ wf_context' = [NoContext EXCEPT
                         !.passed = [i \in 1..Len(wf.selected_agents) |-> {}]]
    /\ wf_pc' = "gather"
    /\ UNCHANGED <<wf, wf_clock>>
    /\ UNCHANGED <<lg_vars, rl_vars, rt_vars, cm_vars, id_vars, pf_vars>>

\* an agent's execute() returns or raises and its execute_agent coroutine finishes:
\* in any order among the coroutines gather started
PS_AgentFinishes ==
    /\ wf_pc \in {"gather", "sequential_await"}
    /\ \E i \in 1..Len(wf_tasks), outcome \in AgentOutcomes :
          /\ wf_tasks[i].status = "pending"
          /\ wf_outcomes[ListPosition(i)] \in {NoOutcome, outcome}
          /\ wf_tasks' = [wf_tasks EXCEPT
                             ![i] = execute_agent(wf.selected_agents[ListPosition(i)], outcome)]
          /\ wf_outcomes' = [wf_outcomes EXCEPT ![ListPosition(i)] = outcome]
    /\ UNCHANGED <<wf_pc, wf, wf_clock, wf_invoked>>
    /\ UNCHANGED wf_context
    /\ UNCHANGED <<lg_vars, rl_vars, rt_vars, cm_vars, id_vars, pf_vars>>

\* execute_agents_parallel: gather returns when every coroutine has returned; the
\* function returns its output dict and execute_agents_sequential is called
PS_GatherReturns ==
    /\ wf_pc = "gather"
    /\ \A i \in 1..Len(wf_tasks) : wf_tasks[i].status # "pending"
    /\ wf_pc' = IF Len(wf.selected_agents) = 0 THEN "both_returned" ELSE "sequential"
    /\ wf_context' = [wf_context EXCEPT !.current = {}]
    /\ UNCHANGED <<wf, wf_tasks, wf_outcomes, wf_clock, wf_invoked>>
    /\ UNCHANGED <<lg_vars, rl_vars, rt_vars, cm_vars, id_vars, pf_vars>>

\* execute_agents_sequential: the loop calls execute_agent for the next agent
PS_SequentialCall ==
    /\ wf_pc = "sequential"
    /\ Len(wf_tasks) < 2 * Len(wf.selected_agents)
    /\ wf_tasks' = Append(wf_tasks, PendingTask(wf.selected_agents[ListPosition(Len(wf_tasks) + 1)]))
    /\ wf_invoked' = Append(wf_invoked, wf.selected_agents[ListPosition(Len(wf_tasks) + 1)])
    /\ wf_context' = [wf_context EXCEPT !.passed = Append(@, wf_context.current)]
    /\ wf_pc' = "sequential_await"
    /\ UNCHANGED <<wf, wf_outcomes, wf_clock>>
    /\ UNCHANGED <<lg_vars, rl_vars, rt_vars, cm_vars, id_vars, pf_vars>>

\* execute_agents_sequential: the awaited execute_agent returned; a success result
\* whose output is a dict is added to current_context, and after the last agent the
\* function returns its output dict
PS_SequentialNext ==
    /\ wf_pc = "sequential_await"
    /\ wf_tasks[Len(wf_tasks)].status # "pending"
    /\ wf_context' =
          IF /\ wf_tasks[Len(wf_tasks)].status = "success"
             /\ IsDictOutput(wf_tasks[Len(wf_tasks)].output)
          THEN [wf_context EXCEPT !.current = @ \cup {wf_tasks[Len(wf_tasks)].agent}]
          ELSE wf_context
    /\ wf_pc' = IF Len(wf_tasks) < 2 * Len(wf.selected_agents)
                THEN "sequential" ELSE "both_returned"
    /\ UNCHANGED <<wf, wf_tasks, wf_outcomes, wf_clock, wf_invoked>>
    /\ UNCHANGED <<lg_vars, rl_vars, rt_vars, cm_vars, id_vars, pf_vars>>

PS_Next ==
    \/ PS_ParallelCall
    \/ PS_AgentFinishes
    \/ PS_GatherReturns
    \/ PS_SequentialCall
    \/ PS_SequentialNext

\* one call of execute_agents_parallel, then one of execute_agents_sequential
InitPS ==
    LG_Unused /\ PS_Init /\ RL_Unused /\ RT_Unused /\ CM_Unused /\ ID_Unused /\ PF_Unused

SpecPS == InitPS /\ [][PS_Next]_vars

\* execute_agents_sequential: output[agent.value] = result, agent after agent
RECURSIVE SequentialOutput(_, _, _)
SequentialOutput(agents, results, output) ==
    IF Len(agents) = 0 THEN output
    ELSE SequentialOutput(Tail(agents), Tail(results),
                          [a \in DOMAIN output \cup {Head(agents)} |->
                              IF a = Head(agents) THEN Head(results) ELSE output[a]])

\* the map execute_agents_parallel returned
ParallelReturned ==
    ZipResults(wf.selected_agents, SubSeq(wf_tasks, 1, Len(wf.selected_agents)))

\* the map execute_agents_sequential returned
SequentialReturned ==
    SequentialOutput(wf.selected_agents,
                     SubSeq(wf_tasks, Len(wf.selected_agents) + 1, Len(wf_tasks)), << >>)

\* no agent is twice in the list
DistinctAgents(agents) ==
    \A i, j \in 1..Len(agents) : agents[i] = agents[j] => i = j

\* C39: called with the same list of distinct agents, the same input and the same
\* context, with agents whose execute() does the same in both calls,
\* execute_agents_parallel and execute_agents_sequential return maps with the same
\* keys and, for every agent, the same status and the same output, in whatever order
\* the agents finished in the parallel call
C39_ParallelEqualsSequential ==
    (wf_pc = "both_returned" /\ DistinctAgents(wf.selected_agents)) =>
        /\ DOMAIN ParallelReturned = DOMAIN SequentialReturned
        /\ \A a \in DOMAIN ParallelReturned :
              /\ ParallelReturned[a].status = SequentialReturned[a].status
              /\ ParallelReturned[a].output = SequentialReturned[a].output

\* both calls returned for two or more distinct agents, one of which succeeded while
\* another failed
C39_Witness ==
    /\ wf_pc = "both_returned"
    /\ Len(wf.selected_agents) > 1
    /\ DistinctAgents(wf.selected_agents)
    /\ \E a, b \in DOMAIN ParallelReturned :
          /\ ParallelReturned[a].status = "success"
          /\ ParallelReturned[b].status = "error"

====
